---- MODULE Spec2Model ----
(***************************************************************************)
(* Model of the multi-portal tender scraper:                               *)
(*   - the SQLite store of production_portal_scraper.py                    *)
(*     (IsolatedDatabaseManager), statement by statement (SpecStore);      *)
(*   - one portal worker, IsolatedPortalScraper.run, with its three phases,*)
(*     kills and restarts (Spec);                                          *)
(*   - the orchestrator of production_orchestrator.py (SpecOrch).          *)
(***************************************************************************)
EXTENDS Integers, Sequences, FiniteSets, TLC

VARIABLES
    \* ---- the store (one SQLite file shared by every process) ----
    tenders,      \* committed rows of table tenders
    nextId,       \* AUTOINCREMENT sequence of table tenders
    metadata,     \* table scraping_metadata: [portal -> [key -> value]]
    execlog,      \* table portal_execution_log, in insertion order
    failedUrls,   \* table failed_urls, in insertion order
    clock,        \* CURRENT_TIMESTAMP, a logical time
    writer,       \* the connection holding SQLite's write lock, or NoConn
    \* ---- connections running upsert_tenders_batch (SpecStore) ----
    connPortal,   \* portal_id of each IsolatedDatabaseManager
    cpc,          \* position of each connection inside the call
    batch,        \* the argument `tenders` of the running call
    idx,          \* index of the loop `for tender in tenders`
    existing,     \* result of the SELECT of the current iteration
    txn,          \* the connection's open transaction (its view), or NoTxn
    outcome,      \* how the connection's last call ended
    calls,        \* number of store calls issued so far
    lastBatch,    \* per portal: the batch committed last
    applyCount,   \* per portal: consecutive commits of lastBatch (capped at 2)
    \* ---- the portal site and the worker's configuration (Spec) ----
    listing,      \* the listing pages of the portal, in order
    aiConfigured, \* self.ai_checker is not None
    \* ---- one worker process: IsolatedPortalScraper.run ----
    wpc,          \* position of the worker process
    browserAt,    \* the listing page the browser shows (0: none)
    page_num,     \* run_phase1's page_num
    pages_scraped,\* self.pages_scraped
    attempt,      \* attempt of get_next_page_link_with_retry
    navAttempt,   \* attempt of the navigation loop of run_phase1
    inspectErr,   \* the exception raised while the next control was inspected
    cache,        \* IsolatedAIChecker.cache: title -> is_meaningful
    todo,         \* the list a phase iterates (tenders_to_filter / tenders)
    ti,           \* index into todo
    runStatus,    \* stats['status'] of run()
    exitcode,     \* multiprocessing.Process.exitcode: {} while None
    runs,         \* number of times the worker process was started
    faults,       \* number of faults the environment injected
    disturbed,    \* some fault or failed navigation attempt has happened
    \* ---- calls of IsolatedAIChecker.check_titles (SpecChecker) ----
    ctTitles,     \* the argument `titles` of the last call, as a set
    ctThrew,      \* self.client.chat.complete raised in the last call
    ctResult,     \* the dict the last call returned
    \* ---- calls of create_identity_hash (SpecHash) ----
    hashIn,       \* the tender_data dicts given to create_identity_hash
    hashOut,      \* what each call returned (NoHash before the call)
    \* ---- the orchestrator process (SpecOrch) ----
    opc,          \* position of the orchestrator
    li,           \* index of the launch loop
    si,           \* index of the monitoring loop's for
    pstate,       \* each worker process: unstarted, alive or dead
    pstatus,      \* the status its run() ended with
    pexit,        \* its Process.exitcode: {} while None
    completed,    \* the list completed (portal ids)
    failed,       \* the list failed (portal ids)
    orchExit      \* the orchestrator's exit code: {} while running

auxTables == <<metadata, execlog, failedUrls>>
storeVars == <<tenders, nextId, auxTables, clock, writer>>
connVars  == <<connPortal, cpc, batch, idx, existing, txn, outcome, calls,
               lastBatch, applyCount>>
siteVars == <<listing, aiConfigured>>
extractLocals == <<page_num, pages_scraped, attempt, navAttempt>>
phaseLocals == <<cache, todo, ti>>
procVars == <<wpc, runStatus, exitcode, runs>>
hashVars == <<hashIn, hashOut>>
checkVars == <<ctTitles, ctThrew, ctResult, hashVars>>
workerVars == <<siteVars, browserAt, extractLocals, phaseLocals, procVars,
                faults, disturbed, checkVars, inspectErr>>
orchVars == <<opc, li, si, pstate, pstatus, pexit, completed, failed, orchExit>>
vars == <<storeVars, connVars, workerVars, orchVars>>

(***************************************************************************)
(* Bounds of the model                                                     *)
(***************************************************************************)
MaxBatchLen == 2
MaxCalls == 2
MaxClock == 2
MaxPages == 2
MaxRuns == 2
MaxFaults == 1
MaxBacklog == 51

(***************************************************************************)
(* Values                                                                  *)
(***************************************************************************)
Portals == {"WB", "BHEL"}
Conns == {"c1", "c2"}
NoConn == "none"
NoTxn == [open |-> FALSE]
NoBatch == <<>>
\* scraping_metadata of one portal with no row: get_metadata returns None for
\* every key (last_page_extracted = 0 stands for "no row": pages count from 1).
NoMetadata == [last_page_extracted |-> 0, phase1_complete |-> FALSE,
               ai_filtering_complete |-> FALSE, phase2_complete |-> FALSE]

\* A tender dict as extract_tenders_from_page builds it. src stands for the
\* source fields outside the identity (S.No., closing and opening date, run
\* date, portal source); ok = FALSE is a dict that lacks the key 'Run Date'.
Tender(h, t, s, u, ok) ==
    [hash |-> h, title |-> t, src |-> s, url |-> u, ok |-> ok]

StoreTenders ==
    { Tender("h1", "t1", "s1", "u1", TRUE),
      Tender("h1", "t1", "s2", "",   TRUE),
      Tender("h2", "t2", "s1", "u2", TRUE),
      Tender("h2", "t2", "s1", "u2", FALSE) }

SeqsUpTo(S, n) == UNION { [1..k -> S] : k \in 1..n }
\* The loop of upsert_tenders_batch stops at the first dict it cannot process,
\* so the dicts after a malformed one are never read: batches end there.
Batches == { b \in SeqsUpTo(StoreTenders, MaxBatchLen) :
                \A i \in 1..(Len(b) - 1) : b[i].ok }

(***************************************************************************)
(* Table tenders: the statements of upsert_tenders_batch                   *)
(***************************************************************************)
Matches(rows, p, h) == { r \in rows : r.portal = p /\ r.hash = h }

\* SELECT id FROM tenders WHERE portal_id = ? AND identity_hash = ?
SelectExisting(rows, p, h) == Matches(rows, p, h) # {}

\* A variant of the UPDATE written as INSERT OR REPLACE: the row keeps its id
\* and every column outside the statement falls back to its default.
UpdateRowReplacing(r, t, now) ==
    [id |-> r.id, portal |-> r.portal, hash |-> r.hash, title |-> t.title,
     src |-> t.src, url |-> t.url, desc |-> "", p1 |-> "extracted",
     p2 |-> "pending", ai |-> 0, created |-> now, updated |-> now]

\* UPDATE tenders SET <source fields>, updated_at = CURRENT_TIMESTAMP WHERE ...
UpdateRow(r, t, now) ==
    [r EXCEPT !.title = t.title, !.src = t.src, !.url = t.url,
              !.updated = now]

UpdateExisting(rows, p, t, now) ==
    { IF r.portal = p /\ r.hash = t.hash THEN UpdateRow(r, t, now) ELSE r
      : r \in rows }

\* A variant of the INSERT that stores new rows as already kept.
NewRowKept(id, p, t, now) ==
    [id |-> id, portal |-> p, hash |-> t.hash, title |-> t.title,
     src |-> t.src, url |-> t.url, desc |-> "", p1 |-> "extracted",
     p2 |-> "pending", ai |-> 1, created |-> now, updated |-> now]

\* INSERT INTO tenders (...): the columns not listed take the schema defaults
NewRow(id, p, t, now) ==
    [id |-> id, portal |-> p, hash |-> t.hash, title |-> t.title,
     src |-> t.src, url |-> t.url, desc |-> "", p1 |-> "extracted",
     p2 |-> "pending", ai |-> 0, created |-> now, updated |-> now]

\* A variant of the schema without the UNIQUE constraint: no INSERT is refused.
NoUniqueConstraint(rows, p, h) == FALSE

\* UNIQUE(portal_id, identity_hash): the INSERT raises IntegrityError
UniqueViolation(rows, p, h) == Matches(rows, p, h) # {}

\* One iteration's UPDATE or INSERT on the view v = [rows, seq].
ExecWrite(v, p, t, exists, now) ==
    IF ~t.ok THEN [ok |-> FALSE, err |-> "KeyError", rows |-> v.rows, seq |-> v.seq]
    ELSE IF exists
    THEN [ok |-> TRUE, err |-> "", rows |-> UpdateExisting(v.rows, p, t, now),
          seq |-> v.seq]
    ELSE IF UniqueViolation(v.rows, p, t.hash)
    THEN [ok |-> FALSE, err |-> "IntegrityError", rows |-> v.rows, seq |-> v.seq]
    ELSE [ok |-> TRUE, err |-> "",
          rows |-> v.rows \cup {NewRow(v.seq + 1, p, t, now)},
          seq |-> v.seq + 1]

\* upsert_tenders_batch run alone on the view v: the loop, then commit (ok) or
\* rollback (not ok, v unchanged).
RECURSIVE UpsertFrom(_, _, _, _, _)
UpsertFrom(v, p, b, i, now) ==
    IF i > Len(b) THEN [ok |-> TRUE, rows |-> v.rows, seq |-> v.seq]
    ELSE LET w == ExecWrite(v, p, b[i], SelectExisting(v.rows, p, b[i].hash), now)
         IN  IF w.ok THEN UpsertFrom([rows |-> w.rows, seq |-> w.seq], p, b, i + 1, now)
             ELSE [ok |-> FALSE, rows |-> v.rows, seq |-> v.seq]

ApplyBatch(v, p, b, now) ==
    LET r == UpsertFrom(v, p, b, 1, now)
    IN  IF r.ok THEN r ELSE [ok |-> FALSE, rows |-> v.rows, seq |-> v.seq]

Committed == [rows |-> tenders, seq |-> nextId]
PortalRows(rows, p) == { r \in rows : r.portal = p }
HashesOf(rows, p) == { r.hash : r \in PortalRows(rows, p) }

(***************************************************************************)
(* Connections: upsert_tenders_batch statement by statement                *)
(***************************************************************************)
InCall == {"select", "write", "commit"}

\* The view a statement of connection c reads: its open transaction, else
\* the committed table.
View(c) == IF txn[c].open THEN [rows |-> txn[c].rows, seq |-> txn[c].seq]
           ELSE Committed

\* conn = self.get_connection(); cursor = conn.cursor(); inserted = updated = 0
CallUpsert(c, b) ==
    /\ cpc[c] = "idle"
    /\ calls < MaxCalls
    /\ cpc' = [cpc EXCEPT ![c] = "select"]
    /\ batch' = [batch EXCEPT ![c] = b]
    /\ idx' = [idx EXCEPT ![c] = 1]
    /\ outcome' = [outcome EXCEPT ![c] = "running"]
    /\ calls' = calls + 1
    /\ UNCHANGED <<storeVars, connPortal, workerVars, orchVars, existing, txn,
                   lastBatch, applyCount>>

\* cursor.execute(SELECT ...); existing = cursor.fetchone()
Select(c) ==
    /\ cpc[c] = "select"
    /\ existing' = [existing EXCEPT ![c] =
           SelectExisting(View(c).rows, connPortal[c], batch[c][idx[c]].hash)]
    /\ cpc' = [cpc EXCEPT ![c] = "write"]
    /\ UNCHANGED <<storeVars, connPortal, workerVars, orchVars, batch, idx,
                   txn, outcome, calls, lastBatch, applyCount>>

\* A variant of the handler that commits instead of rolling back.
RaiseCommitting(c) ==
    /\ cpc' = [cpc EXCEPT ![c] = "idle"]
    /\ txn' = [txn EXCEPT ![c] = NoTxn]
    /\ writer' = IF writer = c THEN NoConn ELSE writer
    /\ outcome' = [outcome EXCEPT ![c] = "raised"]
    /\ batch' = [batch EXCEPT ![c] = NoBatch]
    /\ idx' = [idx EXCEPT ![c] = 1]
    /\ existing' = [existing EXCEPT ![c] = FALSE]
    /\ tenders' = View(c).rows
    /\ nextId' = View(c).seq
    /\ UNCHANGED <<auxTables, clock, connPortal, workerVars, orchVars,
                   calls, lastBatch, applyCount>>

\* except Exception: conn.rollback(); raise e; finally: conn.close()
Raise(c) ==
    /\ cpc' = [cpc EXCEPT ![c] = "idle"]
    /\ txn' = [txn EXCEPT ![c] = NoTxn]
    /\ writer' = IF writer = c THEN NoConn ELSE writer
    /\ outcome' = [outcome EXCEPT ![c] = "raised"]
    /\ batch' = [batch EXCEPT ![c] = NoBatch]
    /\ idx' = [idx EXCEPT ![c] = 1]
    /\ existing' = [existing EXCEPT ![c] = FALSE]
    /\ UNCHANGED <<tenders, nextId, auxTables, clock, connPortal, workerVars, orchVars,
                   calls, lastBatch, applyCount>>

\* cursor.execute(UPDATE ...) or cursor.execute(INSERT ...): the first one
\* opens the transaction and takes the write lock.
Write(c) ==
    /\ cpc[c] = "write"
    /\ LET t == batch[c][idx[c]]
           w == ExecWrite(View(c), connPortal[c], t, existing[c], clock)
       IN  IF ~t.ok
           THEN Raise(c)
           ELSE /\ writer \in {NoConn, c}
                /\ IF ~w.ok
                   THEN Raise(c)
                   ELSE /\ txn' = [txn EXCEPT ![c] =
                                [open |-> TRUE, rows |-> w.rows, seq |-> w.seq]]
                        /\ writer' = c
                        /\ idx' = [idx EXCEPT ![c] = idx[c] + 1]
                        /\ cpc' = [cpc EXCEPT ![c] =
                                IF idx[c] + 1 > Len(batch[c]) THEN "commit"
                                ELSE "select"]
                        /\ UNCHANGED <<tenders, nextId, auxTables, clock,
                                       connPortal, workerVars, orchVars,
                                       batch, existing, outcome, calls,
                                       lastBatch, applyCount>>

\* The write lock is held by another connection until the busy timeout:
\* sqlite3.OperationalError (database is locked).
Busy(c) ==
    /\ cpc[c] = "write"
    /\ batch[c][idx[c]].ok
    /\ writer \notin {NoConn, c}
    /\ Raise(c)

\* conn.commit(); return (inserted, updated)
Commit(c) ==
    /\ cpc[c] = "commit"
    /\ tenders' = View(c).rows
    /\ nextId' = View(c).seq
    /\ writer' = NoConn
    /\ txn' = [txn EXCEPT ![c] = NoTxn]
    /\ cpc' = [cpc EXCEPT ![c] = "idle"]
    /\ outcome' = [outcome EXCEPT ![c] = "ok"]
    /\ lastBatch' = [lastBatch EXCEPT ![connPortal[c]] = batch[c]]
    /\ applyCount' = [applyCount EXCEPT ![connPortal[c]] =
           IF lastBatch[connPortal[c]] = batch[c] THEN 2 ELSE 1]
    /\ batch' = [batch EXCEPT ![c] = NoBatch]
    /\ idx' = [idx EXCEPT ![c] = 1]
    /\ existing' = [existing EXCEPT ![c] = FALSE]
    /\ UNCHANGED <<auxTables, clock, connPortal, workerVars, orchVars, calls>>

\* The process owning the connection is killed inside the call: SQLite
\* discards the open transaction.
ConnKilled(c) ==
    /\ cpc[c] \in InCall
    /\ cpc' = [cpc EXCEPT ![c] = "idle"]
    /\ txn' = [txn EXCEPT ![c] = NoTxn]
    /\ writer' = IF writer = c THEN NoConn ELSE writer
    /\ outcome' = [outcome EXCEPT ![c] = "killed"]
    /\ batch' = [batch EXCEPT ![c] = NoBatch]
    /\ idx' = [idx EXCEPT ![c] = 1]
    /\ existing' = [existing EXCEPT ![c] = FALSE]
    /\ UNCHANGED <<tenders, nextId, auxTables, clock, connPortal, workerVars, orchVars,
                   calls, lastBatch, applyCount>>

\* A variant of mark_ai_filtered that adds the decision to the column
\* (SET ai_filtered = ai_filtered + ?).
MarkAiRowsAdding(rows, p, h, keep, now) ==
    { IF r.portal = p /\ r.hash = h
      THEN [r EXCEPT !.ai = r.ai + (IF keep THEN 1 ELSE -1), !.updated = now]
      ELSE r : r \in rows }

\* mark_ai_filtered(identity_hash, keep): one UPDATE, committed
MarkAiRows(rows, p, h, keep, now) ==
    { IF r.portal = p /\ r.hash = h
      THEN [r EXCEPT !.ai = IF keep THEN 1 ELSE -1, !.updated = now]
      ELSE r : r \in rows }

\* update_work_description(identity_hash, work_desc, status): one UPDATE, committed
UpdateDescRows(rows, p, h, d, st, now) ==
    { IF r.portal = p /\ r.hash = h
      THEN [r EXCEPT !.desc = d, !.p2 = st, !.updated = now]
      ELSE r : r \in rows }

MarkAiFiltered(c, h, keep) ==
    /\ cpc[c] = "idle"
    /\ calls < MaxCalls
    /\ writer = NoConn
    /\ tenders' = MarkAiRows(tenders, connPortal[c], h, keep, clock)
    /\ calls' = calls + 1
    /\ UNCHANGED <<nextId, auxTables, clock, writer, connPortal, workerVars,
                   orchVars, cpc, batch, idx, existing, txn, outcome,
                   lastBatch, applyCount>>

UpdateWorkDescription(c, h, st) ==
    /\ cpc[c] = "idle"
    /\ calls < MaxCalls
    /\ writer = NoConn
    /\ tenders' = UpdateDescRows(tenders, connPortal[c], h,
                      IF st = "success" THEN "text" ELSE "ERROR: Session expired",
                      st, clock)
    /\ calls' = calls + 1
    /\ UNCHANGED <<nextId, auxTables, clock, writer, connPortal, workerVars,
                   orchVars, cpc, batch, idx, existing, txn, outcome,
                   lastBatch, applyCount>>

(***************************************************************************)
(* The portal site: listing pages, their rows and their "next" control     *)
(***************************************************************************)
WP == "WB"    \* the portal of the worker modelled in Spec

\* A listing row <tr class="even|odd">: its number of <td> cells and the texts
\* of the cells extract_tenders_from_page reads.
Row(n, t, d, o, s, u) ==
    [cells |-> n, title |-> t, pub |-> d, org |-> o, src |-> s, url |-> u]

RowA  == Row(6, "t1", "d1", "o1", "s1", "u1")
RowA2 == Row(6, "t1", "d1", "o1", "s2", "")      \* RowA listed again, changed
RowB  == Row(6, "t2", "d1", "o1", "s1", "u2")
RowC  == Row(6, "t1", "d2", "o1", "s1", "u3")    \* RowA's title, another day
RowShort == Row(5, "t3", "d1", "o1", "s1", "u1") \* fewer than 6 cells

RowSeqs == { <<>>, <<RowA>>, <<RowB, RowA2>>, <<RowShort, RowC>>,
             <<RowA, RowA2>> }

\* A variant of create_identity_hash whose key leaves out the organisation
\* chain.
IdentityHashWithoutOrg(title, pub, org) == title \o "_" \o pub

\* create_identity_hash: md5 of f"{title}_{published}_{org}"; the model keeps
\* the digest's input as the digest.
IdentityHash(title, pub, org) == title \o "_" \o pub \o "_" \o org

RowTender(r) ==
    Tender(IdentityHash(r.title, r.pub, r.org), r.title, r.src, r.url, TRUE)

\* extract_tenders_from_page: rows with fewer than 6 cells are skipped.
ExtractTenders(rows) ==
    LET full == SelectSeq(rows, LAMBDA r : r.cells >= 6)
    IN  [i \in 1..Len(full) |-> RowTender(full[i])]

\* The element a#linkFwd: href = NoAttr is a missing href attribute.
NoAttr == "<none>"
Ctl(present, visible, class, disabledAttr, enabled, href) ==
    [present |-> present, visible |-> visible, class |-> class,
     disabledAttr |-> disabledAttr, enabled |-> enabled, href |-> href]

AvailableControls ==
    { Ctl(TRUE, TRUE, "", FALSE, TRUE, "/nicgep/app?page=2"),
      Ctl(TRUE, TRUE, "nav", FALSE, TRUE, "https://portal/app?page=2") }

CtlAbsent        == Ctl(FALSE, FALSE, "", FALSE, FALSE, NoAttr)
CtlHidden        == Ctl(TRUE, FALSE, "", FALSE, TRUE, "/nicgep/app?page=2")
CtlClassDisabled == Ctl(TRUE, TRUE, "nav Disabled", FALSE, TRUE, "/nicgep/app?page=2")
CtlAttrDisabled  == Ctl(TRUE, TRUE, "", TRUE, TRUE, "/nicgep/app?page=2")
CtlNotEnabled    == Ctl(TRUE, TRUE, "", FALSE, FALSE, "/nicgep/app?page=2")
CtlNoHref        == Ctl(TRUE, TRUE, "", FALSE, TRUE, NoAttr)
CtlEmptyHref     == Ctl(TRUE, TRUE, "", FALSE, TRUE, "")
CtlHashHref      == Ctl(TRUE, TRUE, "", FALSE, TRUE, "#")
CtlVoidHref      == Ctl(TRUE, TRUE, "", FALSE, TRUE, "javascript:void(0)")

TerminalControls ==
    { CtlAbsent, CtlHidden, CtlClassDisabled, CtlAttrDisabled, CtlNotEnabled,
      CtlNoHref, CtlEmptyHref, CtlHashHref, CtlVoidHref }

\* 'disabled' in classes.lower()
ClassHasDisabled(class) == class \in {"nav Disabled", "disabled", "btn disabled"}

\* A variant of is_next_button_available without the is_visible() check.
IsNextButtonAvailableUnseen(c) ==
    IF ~c.present THEN "next_link_not_found"
    ELSE IF ClassHasDisabled(c.class) \/ c.disabledAttr THEN "next_link_disabled"
    ELSE IF ~c.enabled THEN "next_link_not_enabled"
    ELSE IF c.href \in {NoAttr, "", "#", "javascript:void(0)"}
         THEN "next_link_invalid_href"
    ELSE "available"

\* A variant of is_next_button_available that takes a site-relative href for
\* a placeholder.
IsNextButtonAvailableAbsolute(c) ==
    IF ~c.present THEN "next_link_not_found"
    ELSE IF ~c.visible THEN "next_link_hidden"
    ELSE IF ClassHasDisabled(c.class) \/ c.disabledAttr THEN "next_link_disabled"
    ELSE IF ~c.enabled THEN "next_link_not_enabled"
    ELSE IF c.href \in {NoAttr, "", "#", "javascript:void(0)",
                        "/nicgep/app?page=2"}
         THEN "next_link_invalid_href"
    ELSE "available"

\* is_next_button_available, when no DOM call raises: the reason it returns.
IsNextButtonAvailable(c) ==
    IF ~c.present THEN "next_link_not_found"
    ELSE IF ~c.visible THEN "next_link_hidden"
    ELSE IF ClassHasDisabled(c.class) \/ c.disabledAttr THEN "next_link_disabled"
    ELSE IF ~c.enabled THEN "next_link_not_enabled"
    ELSE IF c.href \in {NoAttr, "", "#", "javascript:void(0)"}
         THEN "next_link_invalid_href"
    ELSE "available"

\* Listings: every page but the last has an available next control, the last
\* one a terminal control. Either the rows vary (under a last control that
\* is missing or disabled) or the controls do.
PageOf(rows, next) == [rows |-> rows, next |-> next]

RowVaried(n) ==
    { [i \in 1..n |-> PageOf(f[i], IF i < n
                                   THEN Ctl(TRUE, TRUE, "", FALSE, TRUE, "/nicgep/app?page=2")
                                   ELSE t)]
      : f \in [1..n -> RowSeqs], t \in {CtlAbsent, CtlClassDisabled} }

CtlVaried(n) ==
    { [i \in 1..n |-> PageOf(IF i = 1 THEN <<RowA>> ELSE <<RowB>>,
                             IF i < n THEN a ELSE t)]
      : a \in AvailableControls, t \in TerminalControls }

Listings == UNION { RowVaried(n) \cup CtlVaried(n) : n \in 1..MaxPages }

ListingHashes(l) ==
    UNION { { ExtractTenders(l[i].rows)[j].hash
              : j \in 1..Len(ExtractTenders(l[i].rows)) } : i \in 1..Len(l) }

(***************************************************************************)
(* The worker process: IsolatedPortalScraper.run and run_phase1            *)
(***************************************************************************)
max_stale_retries == 3
nav_attempts == 3

Running == {"start", "extract", "checkpoint", "checknext", "navigate",
            "p1_end", "classify_gate", "classify_batch", "classify_mark",
            "classify_end", "enrich_gate", "enrich_refresh", "enrich_fetch",
            "enrich_ledger", "enrich_export", "enrich_end", "finish"}

\* set_metadata: INSERT OR REPLACE INTO scraping_metadata
MetaSet(md, p, k, v) == [md EXCEPT ![p][k] = v]

\* A variant of run_phase1 that always starts at page 1.
StartPageFromFirst(last) == 1

\* start_page = int(last_page_str) + 1 if last_page_str else 1
StartPage(last) == IF last # 0 THEN last + 1 ELSE 1

\* A variant that navigates to the resume point and lands one page too far.
ResumeLandingBeyond(start_page, n) ==
    IF start_page < n THEN start_page + 1 ELSE n

\* The listing page the browser shows when run_phase1 starts:
\* navigate_to_closing_within_7_days opens the listing's first page, and
\* nothing navigates to start_page ("TODO: Navigate to resume point").
ResumeLanding(start_page, n) == 1

\* The environment injects a fault, within the budget.
Fault == /\ faults < MaxFaults
         /\ faults' = faults + 1
         /\ disturbed' = TRUE

NoFault == UNCHANGED <<faults, disturbed>>

\* An exception leaves the phases: run() catches it, stats['status'] = 'error'.
Escapes ==
    /\ wpc' = "finish"
    /\ runStatus' = "error"

\* A variant of run() that starts phase 1 without reading phase1_complete.
RunStartUngated ==
    /\ wpc = "start"
    /\ \/ /\ NoFault
          /\ browserAt' = ResumeLanding(
                 StartPage(metadata[WP].last_page_extracted), Len(listing))
          /\ page_num' = StartPage(metadata[WP].last_page_extracted)
          /\ wpc' = "extract"
          /\ UNCHANGED <<runStatus, pages_scraped>>
       \/ /\ Fault
          /\ Escapes
          /\ UNCHANGED <<browserAt, page_num, pages_scraped>>
    /\ UNCHANGED <<storeVars, connVars, orchVars, siteVars, checkVars, inspectErr,
                   attempt, navAttempt, phaseLocals, exitcode, runs>>

\* run(): the gate of phase 1, navigate_to_closing_within_7_days, and the
\* first lines of run_phase1.
RunStart ==
    /\ wpc = "start"
    /\ IF ~metadata[WP].phase1_complete
       THEN \/ /\ NoFault
               /\ browserAt' = ResumeLanding(
                      StartPage(metadata[WP].last_page_extracted), Len(listing))
               /\ page_num' = StartPage(metadata[WP].last_page_extracted)
               /\ wpc' = "extract"
               /\ UNCHANGED <<runStatus, pages_scraped>>
            \/ /\ Fault        \* navigation returns False: "Navigation failed"
               /\ Escapes
               /\ UNCHANGED <<browserAt, page_num, pages_scraped>>
       ELSE /\ NoFault
            /\ pages_scraped' = metadata[WP].last_page_extracted
            /\ wpc' = "classify_gate"
            /\ UNCHANGED <<browserAt, page_num, runStatus>>
    /\ UNCHANGED <<storeVars, connVars, orchVars, siteVars, checkVars, inspectErr, attempt, navAttempt,
                   phaseLocals, exitcode, runs>>

\* A variant of run_phase1 that writes the checkpoint of a page before it
\* stores the page's tenders.
ExtractPageCheckpointFirst ==
    /\ wpc = "extract"
    /\ NoFault
    /\ metadata' = MetaSet(metadata, WP, "last_page_extracted", page_num)
    /\ wpc' = "checkpoint"
    /\ UNCHANGED <<tenders, nextId, execlog, failedUrls, clock, writer,
                   connVars, orchVars, siteVars, checkVars, inspectErr,
                   browserAt, extractLocals, phaseLocals, runStatus, exitcode,
                   runs>>

\* run_phase1: extract_tenders_from_page and upsert_tenders_batch of one page.
ExtractPage ==
    /\ wpc = "extract"
    /\ LET pt == ExtractTenders(listing[browserAt].rows)
           r  == ApplyBatch(Committed, WP, pt, clock)
       IN  \/ /\ NoFault
              /\ pt # <<>>
              /\ IF r.ok
                 THEN /\ tenders' = r.rows
                      /\ nextId' = r.seq
                      /\ wpc' = "checkpoint"
                      /\ UNCHANGED runStatus
                 ELSE /\ Escapes
                      /\ UNCHANGED <<tenders, nextId>>
              /\ UNCHANGED <<pages_scraped, attempt>>
           \/ /\ NoFault
              /\ pt = <<>>
              /\ pages_scraped' = page_num
              /\ attempt' = 1
              /\ wpc' = "checknext"
              /\ UNCHANGED <<tenders, nextId, runStatus>>
           \/ /\ Fault          \* query_selector_all raises: the page yields []
              /\ pages_scraped' = page_num
              /\ attempt' = 1
              /\ wpc' = "checknext"
              /\ UNCHANGED <<tenders, nextId, runStatus>>
           \/ /\ Fault          \* upsert_tenders_batch raises a store error
              /\ pt # <<>>
              /\ Escapes
              /\ UNCHANGED <<tenders, nextId, pages_scraped, attempt>>
    /\ UNCHANGED <<auxTables, clock, writer, connVars, orchVars, siteVars, checkVars, inspectErr, browserAt,
                   page_num, navAttempt, phaseLocals, exitcode, runs>>

\* run_phase1: set_metadata('last_page_extracted', str(page_num)), then
\* self.pages_scraped = page_num.
SetCheckpoint ==
    /\ wpc = "checkpoint"
    /\ \/ /\ NoFault
          /\ metadata' = MetaSet(metadata, WP, "last_page_extracted", page_num)
          /\ pages_scraped' = page_num
          /\ attempt' = 1
          /\ wpc' = "checknext"
          /\ UNCHANGED runStatus
       \/ /\ Fault              \* set_metadata raises a store error
          /\ Escapes
          /\ UNCHANGED <<metadata, pages_scraped, attempt>>
    /\ UNCHANGED <<tenders, nextId, execlog, failedUrls, clock, writer,
                   connVars, orchVars, siteVars, checkVars, inspectErr, browserAt, page_num, navAttempt,
                   phaseLocals, exitcode, runs>>

\* One attempt of get_next_page_link_with_retry, and run_phase1's test of
\* its result.
CheckNext ==
    /\ wpc = "checknext"
    /\ LET reason == IsNextButtonAvailable(listing[browserAt].next)
       IN  \/ /\ NoFault
              /\ inspectErr' = "none"
              /\ IF reason = "available"
                 THEN wpc' = "navigate" /\ navAttempt' = 1
                 ELSE wpc' = "p1_end" /\ UNCHANGED navAttempt
              /\ UNCHANGED attempt
           \/ /\ Fault      \* a DOM call of is_next_button_available raises:
              /\ wpc' = "p1_end"    \* it returns (False, "check_error: ...")
              /\ inspectErr' \in {"stale_in_check", "other_in_check"}
              /\ UNCHANGED <<attempt, navAttempt>>
           \/ /\ reason = "available"   \* the second query raises "stale"
              /\ inspectErr' = "stale_in_link"
              /\ disturbed' = TRUE
              /\ UNCHANGED faults
              /\ IF attempt < max_stale_retries
                 THEN attempt' = attempt + 1 /\ UNCHANGED wpc
                 ELSE wpc' = "p1_end" /\ UNCHANGED attempt
              /\ UNCHANGED navAttempt
           \/ /\ reason = "available"   \* the second query raises another error
              /\ inspectErr' = "other_in_link"
              /\ Fault
              /\ wpc' = "p1_end"
              /\ UNCHANGED <<attempt, navAttempt>>
    /\ UNCHANGED <<storeVars, connVars, orchVars, siteVars, checkVars, browserAt, page_num,
                   pages_scraped, phaseLocals, runStatus, exitcode, runs>>

\* A variant of the navigation loop that counts the page at every attempt.
NavigateCountingAttempts ==
    /\ wpc = "navigate"
    /\ \/ /\ NoFault
          /\ browserAt' = browserAt + 1
          /\ page_num' = page_num + 1
          /\ wpc' = "extract"
          /\ UNCHANGED <<navAttempt, runStatus>>
       \/ /\ disturbed' = TRUE
          /\ UNCHANGED faults
          /\ page_num' = page_num + 1
          /\ IF navAttempt < nav_attempts
             THEN navAttempt' = navAttempt + 1 /\ UNCHANGED wpc
             ELSE wpc' = "p1_end" /\ UNCHANGED navAttempt
          /\ UNCHANGED <<browserAt, runStatus>>
       \/ /\ navAttempt < nav_attempts
          /\ Fault
          /\ Escapes
          /\ UNCHANGED <<browserAt, page_num, navAttempt>>
    /\ inspectErr' = "none"
    /\ UNCHANGED <<storeVars, connVars, orchVars, siteVars, checkVars,
                   pages_scraped, attempt, phaseLocals, exitcode, runs>>

\* A variant of the navigation loop that starts its attempts over after the
\* third failure.
NavigateStartingOver ==
    /\ wpc = "navigate"
    /\ \/ /\ NoFault
          /\ browserAt' = browserAt + 1
          /\ page_num' = page_num + 1
          /\ wpc' = "extract"
          /\ UNCHANGED navAttempt
       \/ /\ disturbed' = TRUE
          /\ UNCHANGED faults
          /\ navAttempt' = IF navAttempt < nav_attempts THEN navAttempt + 1
                           ELSE 1
          /\ UNCHANGED <<wpc, browserAt, page_num>>
    /\ inspectErr' = "none"
    /\ UNCHANGED <<storeVars, connVars, orchVars, siteVars, checkVars,
                   pages_scraped, attempt, phaseLocals, runStatus, exitcode,
                   runs>>

\* One attempt of the navigation loop of run_phase1.
Navigate ==
    /\ wpc = "navigate"
    /\ \/ /\ NoFault            \* page.goto(next_url) succeeds
          /\ browserAt' = browserAt + 1
          /\ page_num' = page_num + 1
          /\ wpc' = "extract"
          /\ UNCHANGED <<navAttempt, runStatus>>
       \/ /\ disturbed' = TRUE  \* page.goto raises; page.reload() if attempt < 3
          /\ UNCHANGED faults
          /\ IF navAttempt < nav_attempts
             THEN navAttempt' = navAttempt + 1 /\ UNCHANGED wpc
             ELSE wpc' = "p1_end" /\ UNCHANGED navAttempt
          /\ UNCHANGED <<browserAt, page_num, runStatus>>
       \/ /\ navAttempt < nav_attempts   \* page.goto raises and page.reload() raises
          /\ Fault
          /\ Escapes
          /\ UNCHANGED <<browserAt, page_num, navAttempt>>
    /\ inspectErr' = "none"
    /\ UNCHANGED <<storeVars, connVars, orchVars, siteVars, checkVars, pages_scraped, attempt,
                   phaseLocals, exitcode, runs>>

\* The end of run_phase1: the final export and set_metadata('phase1_complete').
Phase1End ==
    /\ wpc = "p1_end"
    /\ \/ /\ NoFault
          /\ metadata' = MetaSet(metadata, WP, "phase1_complete", TRUE)
          /\ wpc' = "classify_gate"
          /\ UNCHANGED runStatus
       \/ /\ Fault              \* export_to_excel or set_metadata raises
          /\ Escapes
          /\ UNCHANGED metadata
    /\ inspectErr' = "none"
    /\ UNCHANGED <<tenders, nextId, execlog, failedUrls, clock, writer,
                   connVars, orchVars, siteVars, checkVars, browserAt, extractLocals, phaseLocals,
                   exitcode, runs>>

(***************************************************************************)
(* Classify: run_ai_filtering and IsolatedAIChecker.check_titles           *)
(***************************************************************************)
batch_size == 50
session_refresh_every == 10
progress_export_every == 50

\* The rows of S as the list a SELECT returns them (by rowid).
RECURSIVE ById(_)
ById(S) ==
    IF S = {} THEN <<>>
    ELSE LET first == CHOOSE r \in S : \A q \in S : r.id <= q.id
         IN  <<first>> \o ById(S \ {first})

\* A variant of get_tenders_for_ai_filtering that returns the first row only
\* (fetchone for fetchall).
TendersForAiFilteringFirst(rows, p) ==
    { r \in PortalRows(rows, p) :
        /\ r.ai = 0
        /\ \A q \in PortalRows(rows, p) : q.ai = 0 => r.id <= q.id }

\* get_tenders_for_ai_filtering: WHERE portal_id = ? AND ai_filtered = 0
TendersForAiFiltering(rows, p) == { r \in PortalRows(rows, p) : r.ai = 0 }

\* A variant of get_tenders_for_phase2 that selects the kept rows only
\* (AND ai_filtered = 1).
TendersForPhase2KeptOnly(rows, p) ==
    { r \in PortalRows(rows, p) :
        /\ r.ai = 1
        /\ r.p2 \in {"pending", "failed"}
        /\ r.url # "" }

\* get_tenders_for_phase2
TendersForPhase2(rows, p) ==
    { r \in PortalRows(rows, p) :
        /\ r.ai = 1 \/ r.ai = 0
        /\ r.p2 \in {"pending", "failed"}
        /\ r.url # "" }

\* What the classification service answers for a title.
Meaningful(title) == title = "t1"

\* check_titles on the titles of one batch: the cache afterwards. A throwing
\* client makes every uncached title True.
CheckTitles(c, titles, throws) ==
    [t \in (DOMAIN c) \cup titles |->
        IF t \in DOMAIN c THEN c[t]
        ELSE IF throws THEN TRUE ELSE Meaningful(t)]

BatchEnd(i, n) == IF i + batch_size - 1 < n THEN i + batch_size - 1 ELSE n

\* A variant of the gate that does not test self.ai_checker.
ClassifyGateUnguarded ==
    /\ wpc = "classify_gate"
    /\ IF ~metadata[WP].ai_filtering_complete
          /\ TendersForAiFiltering(tenders, WP) # {}
       THEN /\ todo' = ById(TendersForAiFiltering(tenders, WP))
            /\ ti' = 1
            /\ wpc' = "classify_batch"
       ELSE /\ wpc' = "enrich_gate"
            /\ UNCHANGED <<todo, ti>>
    /\ UNCHANGED <<storeVars, connVars, orchVars, siteVars, checkVars, inspectErr, browserAt,
                   extractLocals, cache, runStatus, exitcode, runs, faults,
                   disturbed>>

\* run(): the gate of AI filtering, and run_ai_filtering up to its loop.
ClassifyGate ==
    /\ wpc = "classify_gate"
    /\ IF aiConfigured /\ ~metadata[WP].ai_filtering_complete
          /\ TendersForAiFiltering(tenders, WP) # {}
       THEN /\ todo' = ById(TendersForAiFiltering(tenders, WP))
            /\ ti' = 1
            /\ wpc' = "classify_batch"
       ELSE /\ wpc' = "enrich_gate"
            /\ UNCHANGED <<todo, ti>>
    /\ UNCHANGED <<storeVars, connVars, orchVars, siteVars, checkVars, inspectErr, browserAt, extractLocals,
                   cache, runStatus, exitcode, runs, faults, disturbed>>

\* results = self.ai_checker.check_titles(titles) for the batch starting at ti
ClassifyBatch ==
    /\ wpc = "classify_batch"
    /\ LET titles == { todo[i].title : i \in ti..BatchEnd(ti, Len(todo)) }
       IN  \/ /\ NoFault
              /\ cache' = CheckTitles(cache, titles, FALSE)
           \/ /\ Fault          \* self.client.chat.complete raises
              /\ titles \ DOMAIN cache # {}
              /\ cache' = CheckTitles(cache, titles, TRUE)
    /\ wpc' = "classify_mark"
    /\ UNCHANGED <<storeVars, connVars, orchVars, siteVars, checkVars, inspectErr, browserAt, extractLocals,
                   todo, ti, runStatus, exitcode, runs>>

\* A variant of run_ai_filtering that keeps the titles found meaningful
\* (keep = is_meaningful).
ClassifyMarkKeepingMeaningful ==
    /\ wpc = "classify_mark"
    /\ NoFault
    /\ tenders' = MarkAiRows(tenders, WP, todo[ti].hash,
                             cache[todo[ti].title], clock)
    /\ ti' = ti + 1
    /\ wpc' = IF ti + 1 > Len(todo) THEN "classify_end"
              ELSE IF (ti % batch_size) = 0 THEN "classify_batch"
              ELSE "classify_mark"
    /\ UNCHANGED <<nextId, auxTables, clock, writer, connVars, orchVars,
                   siteVars, checkVars, inspectErr, browserAt, extractLocals,
                   cache, todo, runStatus, exitcode, runs>>

\* keep = not is_meaningful; self.db.mark_ai_filtered(tender['hash'], keep)
ClassifyMark ==
    /\ wpc = "classify_mark"
    /\ \/ /\ NoFault
          /\ tenders' = MarkAiRows(tenders, WP, todo[ti].hash,
                                   ~cache[todo[ti].title], clock)
          /\ ti' = ti + 1
          /\ wpc' = IF ti + 1 > Len(todo) THEN "classify_end"
                    ELSE IF (ti % batch_size) = 0 THEN "classify_batch"
                    ELSE "classify_mark"
          /\ UNCHANGED runStatus
       \/ /\ Fault              \* mark_ai_filtered raises a store error
          /\ Escapes
          /\ UNCHANGED <<tenders, ti>>
    /\ UNCHANGED <<nextId, auxTables, clock, writer, connVars, orchVars, siteVars, checkVars, inspectErr,
                   browserAt, extractLocals, cache, todo, exitcode, runs>>

\* The end of run_ai_filtering: export, set_metadata('ai_filtering_complete')
ClassifyEnd ==
    /\ wpc = "classify_end"
    /\ \/ /\ NoFault
          /\ metadata' = MetaSet(metadata, WP, "ai_filtering_complete", TRUE)
          /\ wpc' = "enrich_gate"
          /\ UNCHANGED runStatus
       \/ /\ Fault              \* export_to_excel or set_metadata raises
          /\ Escapes
          /\ UNCHANGED metadata
    /\ todo' = <<>>
    /\ ti' = 0
    /\ UNCHANGED <<tenders, nextId, execlog, failedUrls, clock, writer,
                   connVars, orchVars, siteVars, checkVars, inspectErr, browserAt, extractLocals, cache,
                   exitcode, runs>>

(***************************************************************************)
(* Enrich: run_phase2 and fetch_work_description                           *)
(***************************************************************************)
\* raw.split(): the words of a text, split at runs of blanks.
RECURSIVE Split(_, _, _)
Split(raw, word, words) ==
    IF raw = "" THEN (IF word = "" THEN words ELSE Append(words, word))
    ELSE IF SubSeq(raw, 1, 1) = " "
         THEN Split(SubSeq(raw, 2, Len(raw)), "",
                    IF word = "" THEN words ELSE Append(words, word))
         ELSE Split(SubSeq(raw, 2, Len(raw)), word \o SubSeq(raw, 1, 1),
                    words)

\* " ".join(words)
RECURSIVE Join(_)
Join(words) ==
    IF words = <<>> THEN ""
    ELSE IF Len(words) = 1 THEN words[1]
    ELSE words[1] \o " " \o Join(Tail(words))

\* cleaned_text = " ".join(raw_text.split())
CleanText(raw) == Join(Split(raw, "", <<>>))

\* The detail page behind a URL: primary is the inner text of the cell the
\* selector "td.td_caption:has-text('Work Description') + td.td_field" finds,
\* scan the text of the second cell of the first "tbody tr" row labelled
\* "Work Description" whose text is not blank; "" where the page has no such
\* element (the lookup raises or finds nothing).
DetailPage(url) ==
    IF url = "u1" THEN [primary |-> " Road  works ", scan |-> "Estimate"]
    ELSE IF url = "u2" THEN [primary |-> "", scan |-> "Bridge repair"]
    ELSE IF url = "u4" THEN [primary |-> "FETCHING of water", scan |-> ""]
    ELSE [primary |-> "  ", scan |-> ""]

\* fetch_work_description when the page loads and the session is valid:
\* Method 1, then Method 2, then "WORK_DESCRIPTION_NOT_FOUND".
FetchWorkDescription(url) ==
    IF CleanText(DetailPage(url).primary) # ""
    THEN CleanText(DetailPage(url).primary)
    ELSE IF CleanText(DetailPage(url).scan) # ""
    THEN CleanText(DetailPage(url).scan)
    ELSE "WORK_DESCRIPTION_NOT_FOUND"

\* str.startswith
StartsWith(d, prefix) ==
    Len(d) >= Len(prefix) /\ SubSeq(d, 1, Len(prefix)) = prefix

\* work_desc.startswith("ERROR") or .startswith("FETCH") or
\* .startswith("WORK_DESCRIPTION")
IsFailureText(d) ==
    \/ StartsWith(d, "ERROR")
    \/ StartsWith(d, "FETCH")
    \/ StartsWith(d, "WORK_DESCRIPTION")

\* run(): the gate of phase 2, and run_phase2 up to its loop.
EnrichGate ==
    /\ wpc = "enrich_gate"
    /\ IF ~metadata[WP].phase2_complete /\ TendersForPhase2(tenders, WP) # {}
       THEN /\ todo' = ById(TendersForPhase2(tenders, WP))
            /\ ti' = 1
            /\ wpc' = "enrich_fetch"
            /\ UNCHANGED runStatus
       ELSE /\ wpc' = "finish"
            /\ runStatus' = "success"
            /\ UNCHANGED <<todo, ti>>
    /\ UNCHANGED <<storeVars, connVars, orchVars, siteVars, checkVars, inspectErr, browserAt, extractLocals,
                   cache, exitcode, runs, faults, disturbed>>

\* A variant of the loop that refreshes the session before every tenth tender
\* (idx % self.session_refresh_every == 0).
NextEnrichRefreshAtTenth ==
    IF ti + 1 > Len(todo) THEN "enrich_end"
    ELSE IF (ti + 1) % session_refresh_every = 0
         THEN "enrich_refresh"
    ELSE "enrich_fetch"

\* The loop of run_phase2 moves to its next tender: the refresh comes first
\* when idx % self.session_refresh_every == 1 and idx > 1.
NextEnrich ==
    IF ti + 1 > Len(todo) THEN "enrich_end"
    ELSE IF (ti + 1) % session_refresh_every = 1 /\ ti + 1 > 1
         THEN "enrich_refresh"
    ELSE "enrich_fetch"

\* After processed += 1 in the try: the progress export is due when
\* processed % 50 == 0 (processed counts every tender of the loop, so it is
\* the loop's index).
AfterProcessed ==
    IF ti % progress_export_every = 0 THEN "enrich_export" ELSE NextEnrich

\* The session refresh of run_phase2: its exception is caught and logged.
EnrichRefresh ==
    /\ wpc = "enrich_refresh"
    /\ \/ NoFault
       \/ Fault                 \* new_page or goto raises: a warning
    /\ wpc' = "enrich_fetch"
    /\ UNCHANGED <<storeVars, connVars, orchVars, siteVars, checkVars,
                   inspectErr, browserAt, extractLocals, phaseLocals,
                   runStatus, exitcode, runs>>

\* One iteration of run_phase2's loop up to update_work_description.
EnrichFetch ==
    /\ wpc = "enrich_fetch"
    /\ \E d \in {FetchWorkDescription(todo[ti].url), "ERROR: Session expired",
                 "FETCH_ERROR: timeout"} :
          /\ IF d = FetchWorkDescription(todo[ti].url) THEN NoFault ELSE Fault
          /\ IF IsFailureText(d)
             THEN /\ tenders' = UpdateDescRows(tenders, WP, todo[ti].hash, d,
                                               "failed", clock)
                  /\ wpc' = "enrich_ledger"
                  /\ UNCHANGED ti
             ELSE /\ tenders' = UpdateDescRows(tenders, WP, todo[ti].hash, d,
                                               "success", clock)
                  /\ wpc' = AfterProcessed
                  /\ ti' = IF ti % progress_export_every = 0
                           THEN ti ELSE ti + 1
    /\ UNCHANGED <<nextId, auxTables, clock, writer, connVars, orchVars, siteVars, checkVars, inspectErr,
                   browserAt, extractLocals, cache, todo, runStatus, exitcode,
                   runs>>

\* self.db.add_failed_url(tender['id'], tender['url'], work_desc)
EnrichLedger ==
    /\ wpc = "enrich_ledger"
    /\ \/ /\ NoFault
          /\ failedUrls' = Append(failedUrls,
                [portal |-> WP, tender_id |-> todo[ti].id, url |-> todo[ti].url,
                 reason |-> CHOOSE d \in
                     { r.desc : r \in Matches(tenders, WP, todo[ti].hash) } :
                         TRUE])
          /\ UNCHANGED tenders
          /\ wpc' = AfterProcessed
          /\ ti' = IF ti % progress_export_every = 0 THEN ti ELSE ti + 1
       \/ /\ Fault      \* add_failed_url raises: the loop's except writes
          /\ tenders' = UpdateDescRows(tenders, WP, todo[ti].hash,
                            "PROCESSING_ERROR: store", "failed", clock)
          /\ UNCHANGED failedUrls
          /\ wpc' = NextEnrich
          /\ ti' = ti + 1
    /\ UNCHANGED <<nextId, metadata, execlog, clock, writer, connVars, orchVars,
                   siteVars, checkVars, inspectErr, browserAt, extractLocals, cache, todo, runStatus,
                   exitcode, runs>>

\* if processed % 50 == 0: export_to_excel(...), inside the loop's try: when
\* it raises, the loop's except writes the tender as failed.
EnrichExport ==
    /\ wpc = "enrich_export"
    /\ \/ /\ NoFault
          /\ UNCHANGED tenders
       \/ /\ Fault              \* export_to_excel raises
          /\ tenders' = UpdateDescRows(tenders, WP, todo[ti].hash,
                            "PROCESSING_ERROR: export", "failed", clock)
    /\ wpc' = NextEnrich
    /\ ti' = ti + 1
    /\ UNCHANGED <<nextId, auxTables, clock, writer, connVars, orchVars,
                   siteVars, checkVars, inspectErr, browserAt, extractLocals,
                   cache, todo, runStatus, exitcode, runs>>

\* The end of run_phase2: export, set_metadata('phase2_complete'); then run()
\* sets stats['status'] = 'success'.
EnrichEnd ==
    /\ wpc = "enrich_end"
    /\ \/ /\ NoFault
          /\ metadata' = MetaSet(metadata, WP, "phase2_complete", TRUE)
          /\ runStatus' = "success"
          /\ wpc' = "finish"
       \/ /\ Fault              \* export_to_excel or set_metadata raises
          /\ Escapes
          /\ UNCHANGED metadata
    /\ todo' = <<>>
    /\ ti' = 0
    /\ UNCHANGED <<tenders, nextId, execlog, failedUrls, clock, writer,
                   connVars, orchVars, siteVars, checkVars, inspectErr, browserAt, extractLocals, cache,
                   exitcode, runs>>

(***************************************************************************)
(* The end of run(), run_portal_instance, kills and restarts               *)
(***************************************************************************)
\* get_statistics
Statistics(rows, p) ==
    [total_extracted |-> Cardinality(PortalRows(rows, p)),
     ai_kept |-> Cardinality({ r \in PortalRows(rows, p) : r.ai = 1 }),
     ai_filtered |-> Cardinality({ r \in PortalRows(rows, p) : r.ai = -1 }),
     phase2_success |-> Cardinality({ r \in PortalRows(rows, p) : r.p2 = "success" }),
     phase2_failed |-> Cardinality({ r \in PortalRows(rows, p) : r.p2 = "failed" })]

\* get_combined_statistics: the row of portal p ('Phase 2 Pending' is
\* SUM(CASE WHEN phase2_status = 'pending' THEN 1 ELSE 0 END)).
CombinedStatistics(rows, p) ==
    [total_extracted |-> Cardinality(PortalRows(rows, p)),
     ai_kept |-> Cardinality({ r \in PortalRows(rows, p) : r.ai = 1 }),
     ai_filtered |-> Cardinality({ r \in PortalRows(rows, p) : r.ai = -1 }),
     phase2_success |-> Cardinality({ r \in PortalRows(rows, p) : r.p2 = "success" }),
     phase2_failed |-> Cardinality({ r \in PortalRows(rows, p) : r.p2 = "failed" }),
     phase2_pending |-> Cardinality({ r \in PortalRows(rows, p) : r.p2 = "pending" })]

\* run_portal_instance: the exit code of the worker process whose run() ended
\* with stats['status'] = status. The function returns a dict in its try and
\* in its except, so the process target returns normally either way.
ProcessExitCode(status) == 0

KilledExitCode == -9

ResetLocals ==
    /\ inspectErr' = "none"
    /\ browserAt' = 0
    /\ page_num' = 0
    /\ pages_scraped' = 0
    /\ attempt' = 0
    /\ navAttempt' = 0
    /\ cache' = <<>>
    /\ todo' = <<>>
    /\ ti' = 0

\* A variant of the end of run() that logs the execution only if the phases
\* did not raise.
FinishLoggingSuccessOnly ==
    /\ wpc = "finish"
    /\ \/ /\ NoFault
          /\ runStatus = "success"
          /\ execlog' = Append(execlog,
                [portal |-> WP, status |-> runStatus,
                 stats |-> Statistics(tenders, WP),
                 pages_scraped |-> pages_scraped])
       \/ /\ NoFault
          /\ runStatus # "success"
          /\ UNCHANGED execlog
       \/ /\ Fault
          /\ UNCHANGED execlog
    /\ wpc' = "exited"
    /\ exitcode' = {ProcessExitCode(runStatus)}
    /\ UNCHANGED <<tenders, nextId, metadata, failedUrls, clock, writer,
                   connVars, orchVars, siteVars, checkVars, inspectErr, browserAt,
                   extractLocals, phaseLocals, runStatus, runs>>

\* run() after its try: get_statistics, log_execution, return; then
\* run_portal_instance returns and the process exits.
Finish ==
    /\ wpc = "finish"
    /\ \/ /\ NoFault
          /\ execlog' = Append(execlog,
                [portal |-> WP, status |-> runStatus,
                 stats |-> Statistics(tenders, WP),
                 pages_scraped |-> pages_scraped])
       \/ /\ Fault              \* get_statistics or log_execution raises
          /\ UNCHANGED execlog
    /\ wpc' = "exited"
    /\ exitcode' = {ProcessExitCode(runStatus)}
    /\ UNCHANGED <<tenders, nextId, metadata, failedUrls, clock, writer,
                   connVars, orchVars, siteVars, checkVars, inspectErr, browserAt, extractLocals, phaseLocals,
                   runStatus, runs>>

\* The worker process is killed (deadline or kill signal).
Kill ==
    /\ wpc \in Running
    /\ wpc' = "killed"
    /\ exitcode' = {KilledExitCode}
    /\ runStatus' = "unknown"
    /\ ResetLocals
    /\ UNCHANGED <<storeVars, connVars, orchVars, siteVars, checkVars, runs, faults, disturbed>>

\* The worker is started again on the same store and the same site.
Restart ==
    /\ wpc \in {"killed", "exited"}
    /\ runs < MaxRuns
    /\ runs' = runs + 1
    /\ wpc' = "start"
    /\ exitcode' = {}
    /\ runStatus' = "unknown"
    /\ ResetLocals
    /\ UNCHANGED <<storeVars, connVars, orchVars, siteVars, checkVars, faults, disturbed>>

(***************************************************************************)
(* The orchestrator: run_all_portals and __main__                          *)
(***************************************************************************)
\* portal_order = list(PORTALS.keys())
PortalOrder == <<"WB", "BHEL", "COAL", "NTPC">>
OrchPortals == { PortalOrder[i] : i \in 1..Len(PortalOrder) }

SeqToSet(q) == { q[i] : i \in 1..Len(q) }

\* A variant of the launch loop that starts the next worker without sleeping.
LaunchWithoutStagger ==
    /\ opc = "launch"
    /\ pstate' = [pstate EXCEPT ![PortalOrder[li]] = "alive"]
    /\ IF li < Len(PortalOrder)
       THEN li' = li + 1 /\ UNCHANGED opc
       ELSE opc' = "while" /\ UNCHANGED li
    /\ UNCHANGED <<storeVars, connVars, workerVars, si, pstatus, pexit,
                   completed, failed, orchExit>>

\* process.start(); processes.append(...) of portal_order[idx]; the sleep
\* follows if idx < len(portal_order) - 1.
Launch ==
    /\ opc = "launch"
    /\ pstate' = [pstate EXCEPT ![PortalOrder[li]] = "alive"]
    /\ opc' = IF li < Len(PortalOrder) THEN "stagger" ELSE "while"
    /\ UNCHANGED <<storeVars, connVars, workerVars, li, si, pstatus, pexit,
                   completed, failed, orchExit>>

\* time.sleep(PORTAL_START_DELAY), then the next iteration of the launch loop.
StaggerSleep ==
    /\ opc = "stagger"
    /\ opc' = "launch"
    /\ li' = li + 1
    /\ UNCHANGED <<storeVars, connVars, workerVars, si, pstate, pstatus,
                   pexit, completed, failed, orchExit>>

\* A worker's run() ends with the given status and its process exits.
WorkerReturns(w, status) ==
    /\ pstate[w] = "alive"
    /\ pstate' = [pstate EXCEPT ![w] = "dead"]
    /\ pstatus' = [pstatus EXCEPT ![w] = status]
    /\ pexit' = [pexit EXCEPT ![w] = {ProcessExitCode(status)}]
    /\ UNCHANGED <<storeVars, connVars, workerVars, opc, li, si, completed,
                   failed, orchExit>>

\* A worker process is killed.
WorkerKilled(w) ==
    /\ pstate[w] = "alive"
    /\ pstate' = [pstate EXCEPT ![w] = "dead"]
    /\ pstatus' = [pstatus EXCEPT ![w] = "killed"]
    /\ pexit' = [pexit EXCEPT ![w] = {KilledExitCode}]
    /\ UNCHANGED <<storeVars, connVars, workerVars, opc, li, si, completed,
                   failed, orchExit>>

\* A variant of the monitoring loop that runs while all workers are alive.
WhileAllAlive ==
    /\ opc = "while"
    /\ IF \A w \in OrchPortals : pstate[w] = "alive"
       THEN opc' = "for" /\ si' = 1
       ELSE opc' = "summary" /\ UNCHANGED si
    /\ UNCHANGED <<storeVars, connVars, workerVars, li, pstate, pstatus,
                   pexit, completed, failed, orchExit>>

\* while any(p['process'].is_alive() for p in processes):
WhileAlive ==
    /\ opc = "while"
    /\ IF \E w \in OrchPortals : pstate[w] = "alive"
       THEN opc' = "for" /\ si' = 1
       ELSE opc' = "summary" /\ UNCHANGED si
    /\ UNCHANGED <<storeVars, connVars, workerVars, li, pstate, pstatus,
                   pexit, completed, failed, orchExit>>

\* One iteration of `for portal_info in processes`.
Sweep ==
    /\ opc = "for"
    /\ LET w == PortalOrder[si]
       IN  IF pstate[w] # "alive"
              /\ w \notin SeqToSet(completed) \cup SeqToSet(failed)
           THEN IF pexit[w] = {0}
                THEN completed' = Append(completed, w) /\ UNCHANGED failed
                ELSE failed' = Append(failed, w) /\ UNCHANGED completed
           ELSE UNCHANGED <<completed, failed>>
    /\ IF si < Len(PortalOrder)
       THEN si' = si + 1 /\ UNCHANGED opc
       ELSE opc' = "sleep" /\ UNCHANGED si
    /\ UNCHANGED <<storeVars, connVars, workerVars, li, pstate, pstatus, pexit, orchExit>>

\* time.sleep(5)
PollSleep ==
    /\ opc = "sleep"
    /\ opc' = "while"
    /\ UNCHANGED <<storeVars, connVars, workerVars, li, si, pstate, pstatus,
                   pexit, completed, failed, orchExit>>

\* The summary, the joins and the return of run_all_portals.
Summary ==
    /\ opc = "summary"
    /\ opc' = "main"
    /\ UNCHANGED <<storeVars, connVars, workerVars, li, si, pstate, pstatus,
                   pexit, completed, failed, orchExit>>

\* __main__ after run_all_portals: analyze_portal_errors, then exit(1) if
\* results['failed'] else exit(0); any exception: exit(1).
MainExit(analyzeRaises) ==
    /\ opc = "main"
    /\ opc' = "exited"
    /\ orchExit' = IF analyzeRaises THEN {1}
                   ELSE IF failed # <<>> THEN {1} ELSE {0}
    /\ UNCHANGED <<storeVars, connVars, workerVars, li, si, pstate, pstatus,
                   pexit, completed, failed>>

\* Time passes: CURRENT_TIMESTAMP moves on between statements.
Tick ==
    /\ clock < MaxClock
    /\ clock' = clock + 1
    /\ UNCHANGED <<tenders, nextId, auxTables, writer, connVars, workerVars,
                   orchVars>>

(***************************************************************************)
(* Specifications                                                          *)
(***************************************************************************)
InitStoreTables ==
    /\ tenders = {}
    /\ nextId = 0
    /\ metadata = [p \in Portals |-> NoMetadata]
    /\ execlog = <<>>
    /\ failedUrls = <<>>
    /\ clock = 1
    /\ writer = NoConn

InitConns ==
    /\ cpc = [c \in Conns |-> "idle"]
    /\ batch = [c \in Conns |-> NoBatch]
    /\ idx = [c \in Conns |-> 1]
    /\ existing = [c \in Conns |-> FALSE]
    /\ txn = [c \in Conns |-> NoTxn]
    /\ outcome = [c \in Conns |-> "none"]
    /\ calls = 0
    /\ lastBatch = [p \in Portals |-> NoBatch]
    /\ applyCount = [p \in Portals |-> 0]

NoHashCalls ==
    /\ hashIn = <<>>
    /\ hashOut = <<>>

InitWorkerLocals ==
    /\ inspectErr = "none"
    /\ ctTitles = {}
    /\ ctThrew = FALSE
    /\ ctResult = <<>>
    /\ browserAt = 0
    /\ page_num = 0
    /\ pages_scraped = 0
    /\ attempt = 0
    /\ navAttempt = 0
    /\ cache = <<>>
    /\ todo = <<>>
    /\ ti = 0
    /\ runStatus = "unknown"
    /\ exitcode = {}
    /\ faults = 0
    /\ disturbed = FALSE

InitOrchIdle ==
    /\ opc = "idle"
    /\ li = 1
    /\ si = 1
    /\ pstate = [w \in OrchPortals |-> "unstarted"]
    /\ pstatus = [w \in OrchPortals |-> "unknown"]
    /\ pexit = [w \in OrchPortals |-> {}]
    /\ completed = <<>>
    /\ failed = <<>>
    /\ orchExit = {}

\* Spec: one worker of portal WP on an empty store.
Init ==
    /\ InitOrchIdle
    /\ InitStoreTables
    /\ InitConns
    /\ connPortal = [c \in Conns |-> WP]
    /\ listing \in Listings
    /\ aiConfigured \in BOOLEAN
    /\ InitWorkerLocals
    /\ NoHashCalls
    /\ wpc = "start"
    /\ runs = 1

Next ==
    \/ RunStart
    \/ ExtractPage
    \/ SetCheckpoint
    \/ CheckNext
    \/ Navigate
    \/ Phase1End
    \/ ClassifyGate
    \/ ClassifyBatch
    \/ ClassifyMark
    \/ ClassifyEnd
    \/ EnrichGate
    \/ EnrichFetch
    \/ EnrichLedger
    \/ EnrichEnd
    \/ Finish
    \/ Kill
    \/ Restart

Spec == Init /\ [][Next]_vars

\* SpecExtractLive: one run of a worker up to the end of run_phase1, on an
\* empty store or on the store of a run that was killed after the checkpoint
\* of page 1. The worker is one sequential process: when every browser and
\* store call returns (normally or by raising), it takes its next step
\* whenever it has one. Kills come from outside and are not owed.
InitExtract ==
    /\ InitOrchIdle
    /\ InitConns
    /\ connPortal = [c \in Conns |-> WP]
    /\ listing \in Listings
    /\ aiConfigured = TRUE
    /\ InitWorkerLocals
    /\ NoHashCalls
    /\ wpc = "start"
    /\ execlog = <<>>
    /\ failedUrls = <<>>
    /\ clock = 1
    /\ writer = NoConn
    /\ \/ /\ tenders = {}
          /\ nextId = 0
          /\ metadata = [p \in Portals |-> NoMetadata]
          /\ runs = 1
       \/ LET first == ApplyBatch([rows |-> {}, seq |-> 0], WP,
                                   ExtractTenders(listing[1].rows), 1)
          IN  /\ ExtractTenders(listing[1].rows) # <<>>
              /\ first.ok
              /\ tenders = first.rows
              /\ nextId = first.seq
              /\ metadata = MetaSet([p \in Portals |-> NoMetadata], WP,
                                    "last_page_extracted", 1)
              /\ runs = 2

ExtractStep ==
    \/ RunStart
    \/ ExtractPage
    \/ SetCheckpoint
    \/ CheckNext
    \/ Navigate
    \/ Phase1End

NextExtract ==
    \/ RunStart
    \/ ExtractPage
    \/ SetCheckpoint
    \/ CheckNext
    \/ Navigate
    \/ Phase1End
    \/ Kill

SpecExtractLive == InitExtract /\ [][NextExtract]_vars /\ WF_vars(ExtractStep)

\* The table an earlier run of portal WB left behind: one tender kept by the
\* classifier and enriched, one rejected by it.
EarlierRunTenders ==
    { [id |-> 1, portal |-> "WB", hash |-> "h1", title |-> "t1", src |-> "s1",
       url |-> "u1", desc |-> "text", p1 |-> "extracted", p2 |-> "success",
       ai |-> 1, created |-> 1, updated |-> 1],
      [id |-> 2, portal |-> "WB", hash |-> "h2", title |-> "t2", src |-> "s1",
       url |-> "u2", desc |-> "", p1 |-> "extracted", p2 |-> "pending",
       ai |-> -1, created |-> 1, updated |-> 1] }

\* SpecStore: connections of any portals calling the store concurrently, on
\* an empty store or on the store of an earlier run.
InitStore ==
    /\ InitOrchIdle
    /\ \/ InitStoreTables
       \/ /\ tenders = EarlierRunTenders
          /\ nextId = 2
          /\ metadata = [p \in Portals |-> NoMetadata]
          /\ execlog = <<>>
          /\ failedUrls = <<>>
          /\ clock = 1
          /\ writer = NoConn
    /\ InitConns
    /\ connPortal \in { f \in [Conns -> Portals] : f["c1"] = "WB" }
    /\ listing = <<>>
    /\ aiConfigured = FALSE
    /\ InitWorkerLocals
    /\ NoHashCalls
    /\ wpc = "idle"
    /\ runs = 0

NextStore ==
    \/ \E c \in Conns, b \in Batches : CallUpsert(c, b)
    \/ \E c \in Conns : Select(c)
    \/ \E c \in Conns : Write(c)
    \/ \E c \in Conns : Busy(c)
    \/ \E c \in Conns : Commit(c)
    \/ \E c \in Conns : ConnKilled(c)
    \/ \E c \in Conns, h \in {"h1", "h2"}, keep \in BOOLEAN :
           MarkAiFiltered(c, h, keep)
    \/ \E c \in Conns, h \in {"h1", "h2"}, st \in {"success", "failed"} :
           UpdateWorkDescription(c, h, st)
    \/ Tick

SpecStore == InitStore /\ [][NextStore]_vars

\* The sizes of the backlog: a few tenders, and enough of them for the
\* session refreshes and the progress export of run_phase2 to come due.
BacklogSizes == {1, 2, 3, 4, 11, 21, MaxBacklog - 1, MaxBacklog}

\* SpecEnrich: one worker of portal WP started on the store of a run that
\* extracted and classified a backlog of tenders and enriched none of them.
BacklogUrl(i) ==
    IF i % 5 = 1 THEN "u2"
    ELSE IF i % 5 = 2 THEN "u3"
    ELSE IF i % 5 = 3 THEN "u4"
    ELSE "u1"

BacklogTenders(n) ==
    { [id |-> i, portal |-> WP, hash |-> "h" \o ToString(i), title |-> "t2",
       src |-> "s1", url |-> BacklogUrl(i), desc |-> "", p1 |-> "extracted",
       p2 |-> "pending", ai |-> 1, created |-> 1, updated |-> 1] :
      i \in 1..n }

InitEnrich ==
    /\ InitOrchIdle
    /\ \E n \in BacklogSizes :
          /\ tenders = BacklogTenders(n)
          /\ nextId = n
    /\ metadata = [p \in Portals |->
                     IF p = WP
                     THEN [last_page_extracted |-> 1, phase1_complete |-> TRUE,
                           ai_filtering_complete |-> TRUE,
                           phase2_complete |-> FALSE]
                     ELSE NoMetadata]
    /\ execlog = <<>>
    /\ failedUrls = <<>>
    /\ clock = 1
    /\ writer = NoConn
    /\ InitConns
    /\ connPortal = [c \in Conns |-> WP]
    /\ listing = <<>>
    /\ aiConfigured = TRUE
    /\ InitWorkerLocals
    /\ NoHashCalls
    /\ wpc = "start"
    /\ runs = 1

NextEnrichRun ==
    \/ RunStart
    \/ ClassifyGate
    \/ EnrichGate
    \/ EnrichRefresh
    \/ EnrichFetch
    \/ EnrichLedger
    \/ EnrichExport
    \/ EnrichEnd
    \/ Finish
    \/ Restart

SpecEnrich == InitEnrich /\ [][NextEnrichRun]_vars

\* SpecOrch: the orchestrator and its worker processes.
InitOrch ==
    /\ InitStoreTables
    /\ InitConns
    /\ connPortal = [c \in Conns |-> WP]
    /\ listing = <<>>
    /\ aiConfigured = FALSE
    /\ InitWorkerLocals
    /\ NoHashCalls
    /\ wpc = "idle"
    /\ runs = 0
    /\ opc = "launch"
    /\ li = 1
    /\ si = 1
    /\ pstate = [w \in OrchPortals |-> "unstarted"]
    /\ pstatus = [w \in OrchPortals |-> "unknown"]
    /\ pexit = [w \in OrchPortals |-> {}]
    /\ completed = <<>>
    /\ failed = <<>>
    /\ orchExit = {}

NextOrch ==
    \/ Launch
    \/ StaggerSleep
    \/ \E w \in OrchPortals, st \in {"success", "error"} : WorkerReturns(w, st)
    \/ \E w \in OrchPortals : WorkerKilled(w)
    \/ WhileAlive
    \/ Sweep
    \/ PollSleep
    \/ Summary
    \/ \E r \in BOOLEAN : MainExit(r)

SpecOrch == InitOrch /\ [][NextOrch]_vars

\* SpecOrchLive: the orchestrator is one sequential process whose calls
\* (start, sleep, is_alive, join with a timeout) return, so it takes its next
\* step whenever it has one; nothing is assumed about the workers.
OrchStep ==
    \/ Launch
    \/ StaggerSleep
    \/ WhileAlive
    \/ Sweep
    \/ PollSleep
    \/ Summary
    \/ \E r \in BOOLEAN : MainExit(r)

SpecOrchLive == InitOrch /\ [][NextOrch]_vars /\ WF_vars(OrchStep)

\* SpecChecker: one IsolatedAIChecker object and the calls made on it.
CheckerTitles == {"t1", "t2", "t3", "t4"}

\* IsolatedAIChecker.__init__: self.cache = {}
NewChecker ==
    /\ wpc = "idle"
    /\ cache' = <<>>
    /\ ctTitles' = {}
    /\ ctThrew' = FALSE
    /\ ctResult' = <<>>
    /\ UNCHANGED <<storeVars, connVars, orchVars, siteVars, browserAt,
                   extractLocals, inspectErr, todo, ti, procVars, faults,
                   disturbed, hashVars>>

\* One call check_titles(titles). The client is called, and can raise, only
\* if some title is not in the cache. The call returns the cache's entries
\* of the titles it was given.
CheckTitlesCall(titles, throws) ==
    /\ wpc = "idle"
    /\ titles # {}
    /\ throws => titles \ DOMAIN cache # {}
    /\ cache' = CheckTitles(cache, titles, throws)
    /\ ctTitles' = titles
    /\ ctThrew' = throws
    /\ ctResult' = [t \in titles |-> cache'[t]]
    /\ UNCHANGED <<storeVars, connVars, orchVars, siteVars, browserAt,
                   extractLocals, inspectErr, todo, ti, procVars, faults,
                   disturbed, hashVars>>

InitChecker ==
    /\ InitOrchIdle
    /\ InitStoreTables
    /\ InitConns
    /\ connPortal = [c \in Conns |-> WP]
    /\ listing = <<>>
    /\ aiConfigured = TRUE
    /\ InitWorkerLocals
    /\ NoHashCalls
    /\ wpc = "idle"
    /\ runs = 0

NextChecker ==
    \/ NewChecker
    \/ \E titles \in SUBSET CheckerTitles, throws \in BOOLEAN :
           CheckTitlesCall(titles, throws)

SpecChecker == InitChecker /\ [][NextChecker]_vars

\* SpecHash: create_identity_hash called on two tender_data dicts.
NoHash == "<no hash>"

\* The dicts: titles, dates and organisation chains of which some contain
\* the "_" that the hashed key uses as separator, under differing S.No. and
\* details URL.
HashDicts ==
    { Row(6, t, d, o, s, u) : t \in {"a", "a_b"}, d \in {"c", "b_c"},
                              o \in {"o", "c_o"}, s \in {"s1", "s2"},
                              u \in {"", "u1"} }

\* create_identity_hash(tender_data) for the i-th dict
CreateIdentityHash(i) ==
    /\ wpc = "idle"
    /\ i \in DOMAIN hashIn
    /\ hashOut[i] = NoHash
    /\ hashOut' = [hashOut EXCEPT ![i] =
           IdentityHash(hashIn[i].title, hashIn[i].pub, hashIn[i].org)]
    /\ UNCHANGED <<storeVars, connVars, orchVars, siteVars, browserAt,
                   extractLocals, inspectErr, phaseLocals, procVars, faults,
                   disturbed, ctTitles, ctThrew, ctResult, hashIn>>

InitHash ==
    /\ InitOrchIdle
    /\ InitStoreTables
    /\ InitConns
    /\ connPortal = [c \in Conns |-> WP]
    /\ listing = <<>>
    /\ aiConfigured = FALSE
    /\ InitWorkerLocals
    /\ hashIn \in [1..2 -> HashDicts]
    /\ hashOut = [i \in 1..2 |-> NoHash]
    /\ wpc = "idle"
    /\ runs = 0

NextHash == \E i \in 1..2 : CreateIdentityHash(i)

SpecHash == InitHash /\ [][NextHash]_vars

(***************************************************************************)
(* Properties of the store (SpecStore)                                     *)
(***************************************************************************)
\* C1: whatever upsert_tenders_batch calls have run, on whatever connections
\* and however interleaved, table tenders holds at most one row per
\* (portal_id, identity_hash).
UniquePortalHash ==
    \A r1, r2 \in tenders :
        (r1.portal = r2.portal /\ r1.hash = r2.hash) => r1 = r2

\* Two connections of one portal have both committed a batch, the last one
\* holding the same identity hash twice.
UniquePortalHashWitness ==
    /\ connPortal["c1"] = connPortal["c2"]
    /\ outcome["c1"] = "ok" /\ outcome["c2"] = "ok"
    /\ Len(lastBatch[connPortal["c1"]]) = 2
    /\ lastBatch[connPortal["c1"]][1].hash = lastBatch[connPortal["c1"]][2].hash
    /\ PortalRows(tenders, connPortal["c1"]) # {}

\* A row with its source fields and timestamps blanked.
OutsideSource(r) ==
    [r EXCEPT !.title = "", !.src = "", !.url = "", !.updated = 0]

\* c's step is the commit of its upsert_tenders_batch call.
CommitsNow(c) == cpc[c] = "commit" /\ outcome'[c] = "ok"

\* C2: when a connection commits the batch its portal committed last (the
\* batch is applied a second time), the portal's row count stays what it was
\* and no row changes outside updated_at and the overwritten source fields.
IdempotentUpsert ==
    [][ \A c \in Conns :
          (CommitsNow(c) /\ lastBatch[connPortal[c]] = batch[c]) =>
             /\ Cardinality(PortalRows(tenders', connPortal[c])) =
                Cardinality(PortalRows(tenders, connPortal[c]))
             /\ { OutsideSource(r) : r \in tenders' } =
                { OutsideSource(r) : r \in tenders } ]_vars

\* A batch has been committed twice in a row over a row that the classifier
\* had already marked.
IdempotentUpsertWitness ==
    \E p \in Portals :
        /\ applyCount[p] = 2
        /\ \E r \in PortalRows(tenders, p) :
              /\ r.ai # 0
              /\ \E i \in 1..Len(lastBatch[p]) : lastBatch[p][i].hash = r.hash

\* Rows with their timestamps blanked.
Untimed(rows) == { [r EXCEPT !.created = 0, !.updated = 0] : r \in rows }

\* C10: upsert_tenders_batch is all-or-nothing. The step on which a call
\* raises leaves table tenders and its sequence as they are and drops the
\* call's transaction; and table tenders changes only by the commit of a
\* whole batch (every record of it applied at once) or by a single-statement
\* call made while no batch is partly written, so no connection reads a
\* partly applied batch.
UpsertAllOrNothing ==
    [][ /\ \A c \in Conns :
             (cpc[c] \in InCall /\ outcome'[c] \in {"raised", "killed"}) =>
                /\ tenders' = tenders
                /\ nextId' = nextId
                /\ txn'[c] = NoTxn
        /\ tenders' # tenders =>
             \/ \E c \in Conns :
                   /\ CommitsNow(c)
                   /\ Untimed(tenders') =
                      Untimed(ApplyBatch(Committed, connPortal[c], batch[c],
                                         clock).rows)
                   /\ ApplyBatch(Committed, connPortal[c], batch[c], clock).ok
             \/ /\ calls' = calls + 1
                /\ \A c \in Conns : ~txn[c].open ]_vars

\* A call has written a record in its transaction, not yet visible in the
\* table, and the record it processes next is malformed.
UpsertAllOrNothingWitness ==
    \E c \in Conns :
        /\ cpc[c] = "write"
        /\ txn[c].open
        /\ txn[c].rows # tenders
        /\ ~batch[c][idx[c]].ok

(***************************************************************************)
(* Properties of one worker (Spec)                                         *)
(***************************************************************************)
\* C3: resume safety of the record set. When Extract has finished (the flag
\* phase1_complete is set), however often the worker was killed and started
\* again on the way, and unless a page or store fault disturbed a run, the
\* identity hashes stored for the portal are exactly those of the rows of
\* the listing's pages, what one uninterrupted run stores, and no
\* identity hash is stored twice.
ResumeSafety ==
    (metadata[WP].phase1_complete /\ ~disturbed) =>
        /\ HashesOf(tenders, WP) = ListingHashes(listing)
        /\ \A r1, r2 \in PortalRows(tenders, WP) : r1.hash = r2.hash => r1 = r2

\* A worker killed after a checkpoint was started again and has finished
\* Extract: it counted its pages from the checkpoint on, past the listing's
\* length.
ResumeSafetyWitness ==
    /\ runs = 2
    /\ ~disturbed
    /\ wpc = "classify_gate"
    /\ metadata[WP].phase1_complete
    /\ page_num > Len(listing)
    /\ Len(listing) = 2
    /\ Cardinality(ListingHashes(listing)) = 2

\* C4 as stated: a worker that starts with Extract incomplete and
\* last_page_extracted = k extracts page k + 1 of the listing first.
ResumesAtNextPage ==
    (/\ wpc = "extract"
     /\ pages_scraped = 0
     /\ metadata[WP].last_page_extracted # 0
     /\ metadata[WP].last_page_extracted < Len(listing))
        => browserAt = metadata[WP].last_page_extracted + 1

\* The next control of a page is in one of the four end-of-data conditions.
EndOfDataControl(c) ==
    \/ ~c.present
    \/ c.present /\ ~c.visible
    \/ c.present /\ (ClassHasDisabled(c.class) \/ c.disabledAttr)
    \/ c.present /\ c.href \in {NoAttr, "", "#", "javascript:void(0)"}

\* The next control of a page is present, visible, enabled and navigable.
NavigableControl(c) ==
    /\ c.present /\ c.visible /\ c.enabled
    /\ ~ClassHasDisabled(c.class) /\ ~c.disabledAttr
    /\ c.href \notin {NoAttr, "", "#", "javascript:void(0)"}

\* C5: on a page whose next control is absent, hidden, disabled (class or
\* attribute) or has an empty or placeholder href, the check of the control
\* ends Extract at that page: the worker never starts navigating from it and
\* the browser never leaves it for a further page.
EndOfDataStops ==
    [][ (wpc \in Running /\ browserAt >= 1 /\
         EndOfDataControl(listing[browserAt].next)) =>
            /\ wpc' # "navigate"
            /\ wpc = "checknext" => wpc' \in {"p1_end", "killed"}
            /\ browserAt' \in {browserAt, 0} ]_vars

\* Extract has ended on a page with a hidden next control, and so has it, in
\* other listings, for the other three conditions.
EndOfDataStopsWitness ==
    /\ wpc = "p1_end"
    /\ pages_scraped = browserAt
    /\ listing[browserAt].next = CtlHidden

ErrorExitsNonZero ==
    (wpc = "exited" /\ runStatus = "error") => exitcode # {0}

(***************************************************************************)
(* Properties of the orchestrator (SpecOrch)                               *)
(***************************************************************************)
\* C7 as stated: when run_all_portals returns, every launched worker is in
\* exactly one of the lists completed and failed, in completed exactly if its
\* exit code is 0.
SummaryComplete ==
    opc = "main" =>
        \A w \in OrchPortals :
            /\ (w \in SeqToSet(completed)) # (w \in SeqToSet(failed))
            /\ (w \in SeqToSet(completed)) <=> (pexit[w] = {0})

\* C8 as stated: when a worker has exited with a non-zero code, the
\* orchestrator's exit code is not 0.
OrchestratorExitCode ==
    (opc = "exited" /\ \E w \in OrchPortals : pexit[w] # {0}) => orchExit # {0}

(***************************************************************************)
(* Further properties of the store (SpecStore)                             *)
(***************************************************************************)
\* The phase state of a row: ai_filtered, phase2_status, work_description.
PhaseState(r) == <<r.ai, r.p2, r.desc>>

\* C11: the commit of an upsert_tenders_batch call leaves ai_filtered,
\* phase2_status and work_description of every row that existed as they
\* were, whatever they hold, and every row it inserts is unclassified
\* (ai_filtered = 0) with phase2_status 'pending' and no work description.
UpsertKeepsPhaseState ==
    [][ \A c \in Conns : CommitsNow(c) =>
          /\ \A r \in tenders : \E q \in tenders' :
                q.id = r.id /\ PhaseState(q) = PhaseState(r)
          /\ \A q \in tenders' :
                (\A r \in tenders : r.id # q.id) =>
                    PhaseState(q) = <<0, "pending", "">> ]_vars

\* A batch was committed, at a later time than the row's creation, over a
\* row that was kept and enriched before.
UpsertKeepsPhaseStateWitness ==
    \E r \in tenders :
        /\ PhaseState(r) = <<1, "success", "text">>
        /\ r.updated > r.created
        /\ applyCount[r.portal] >= 1
        /\ \E i \in 1..Len(lastBatch[r.portal]) :
              lastBatch[r.portal][i].hash = r.hash

(***************************************************************************)
(* Further properties of one worker (Spec)                                 *)
(***************************************************************************)
\* C12: with a classifier configured, every record phase 2 works on (its
\* detail fetch, its phase2_status write, its failed_urls entry) has been
\* classified: no row of the list run_phase2 iterates has ai_filtered = 0,
\* in first runs and in runs started after a kill.
NoEnrichOfUnclassified ==
    (aiConfigured /\ wpc \in {"enrich_fetch", "enrich_ledger"}) =>
        \A i \in 1..Len(todo) :
            \A r \in Matches(tenders, WP, todo[i].hash) : r.ai # 0

\* A worker started again after a kill past Extract has classified in this
\* run and is now fetching a detail page.
NoEnrichOfUnclassifiedWitness ==
    /\ aiConfigured
    /\ runs = 2
    /\ page_num = 0
    /\ cache # <<>>
    /\ wpc = "enrich_fetch"

\* C13: without a classifier the worker never enters run_ai_filtering's
\* loop, no row's ai_filtered leaves 0, and the step at the gate of AI
\* filtering goes on to the gate of phase 2 with the tables, the cache and
\* the run's status as they were.
NoClassifierNoOp ==
    [][ ~aiConfigured =>
          /\ wpc' \notin {"classify_batch", "classify_mark", "classify_end"}
          /\ \A r \in tenders' : r.ai = 0
          /\ wpc = "classify_gate" =>
                /\ wpc' \in {"enrich_gate", "killed"}
                /\ tenders' = tenders
                /\ metadata' = metadata
                /\ cache' = cache
                /\ wpc' = "enrich_gate" => runStatus' = runStatus ]_vars

\* A worker without classifier has passed the gate of AI filtering and is
\* fetching the detail page of a stored record.
NoClassifierNoOpWitness ==
    /\ ~aiConfigured
    /\ wpc = "enrich_fetch"
    /\ ~metadata[WP].ai_filtering_complete
    /\ PortalRows(tenders, WP) # {}

\* C16: in every state of the store and for every portal, the rows counted
\* as kept (ai_filtered = 1), as filtered out (ai_filtered = -1) and the rows
\* not yet classified (ai_filtered = 0) add up to the portal's rows.
ClassifyCountsAddUp ==
    \A p \in Portals :
        Statistics(tenders, p).ai_kept + Statistics(tenders, p).ai_filtered
            + Cardinality(TendersForAiFiltering(tenders, p))
          = Statistics(tenders, p).total_extracted

\* A portal whose rows were stored by a batch in this behaviour, one of them
\* marked since and another one not yet classified.
ClassifyCountsAddUpWitness ==
    \E p \in Portals :
        /\ applyCount[p] >= 1
        /\ TendersForAiFiltering(tenders, p) # {}
        /\ \E r \in PortalRows(tenders, p) : r.ai # 0
        /\ Statistics(tenders, p).total_extracted = 2
        /\ calls = 2

\* C17: in every state of the store and for every portal, the counts of
\* phase 2 successes, failures and pending rows add up to the number of the
\* portal's rows that have a details URL.
EnrichCountsAddUp ==
    \A p \in Portals :
        CombinedStatistics(tenders, p).phase2_success
            + CombinedStatistics(tenders, p).phase2_failed
            + CombinedStatistics(tenders, p).phase2_pending
          = Cardinality({ r \in PortalRows(tenders, p) : r.url # "" })

\* C20: when the two connections belong to workers of different portals, a
\* step of the store changes the rows of one portal only, a committing call
\* changes only the rows of its own portal, and no call is made to fail by
\* the other portal's writer: a call raises only for a record of its own
\* batch that cannot be processed.
DifferentPortalsNeverConflict ==
    [][ (connPortal["c1"] # connPortal["c2"]) =>
          /\ \A p, q \in Portals :
                (/\ PortalRows(tenders', p) # PortalRows(tenders, p)
                 /\ PortalRows(tenders', q) # PortalRows(tenders, q)) => p = q
          /\ \A c \in Conns : CommitsNow(c) =>
                \A p \in Portals \ {connPortal[c]} :
                    PortalRows(tenders', p) = PortalRows(tenders, p)
          /\ \A c \in Conns :
                (outcome[c] = "running" /\ outcome'[c] = "raised") =>
                    ~batch[c][idx[c]].ok ]_vars

\* C15: when run_phase1 has run once from an empty store, without fault or
\* kill, over a listing whose last page has a disabled next control, it has
\* walked the pages 1..N, last_page_extracted is N, and the portal has one
\* row per identity hash of the listing.
LastPageDisabled ==
    /\ listing # <<>>
    /\ IsNextButtonAvailable(listing[Len(listing)].next) = "next_link_disabled"

ExtractCompleteAtLastPage ==
    (wpc = "classify_gate" /\ runs = 1 /\ ~disturbed /\ LastPageDisabled) =>
        /\ browserAt = Len(listing)
        /\ page_num = Len(listing)
        /\ metadata[WP].last_page_extracted = Len(listing)
        /\ HashesOf(tenders, WP) = ListingHashes(listing)
        /\ Cardinality(PortalRows(tenders, WP))
               = Cardinality(ListingHashes(listing))

\* C18: a phase whose completion flag is set in scraping_metadata is skipped.
\* No step of run_phase1, run_ai_filtering or run_phase2 is taken while the
\* phase's flag is set, and no row is inserted or re-extracted, no
\* ai_filtered and no work description or phase 2 status is written; the
\* gate of a completed phase leads straight to the next gate. A phase whose
\* flag is not set is entered at its gate.
ExtractSteps == {"extract", "checkpoint", "checknext", "navigate", "p1_end"}
ClassifySteps == {"classify_batch", "classify_mark", "classify_end"}
EnrichSteps == {"enrich_refresh", "enrich_fetch", "enrich_ledger",
                "enrich_export", "enrich_end"}

SameSourceFields(r, q) ==
    [q EXCEPT !.ai = r.ai, !.p2 = r.p2, !.desc = r.desc,
              !.updated = r.updated] = r

CompletedPhasesSkipped ==
    [][ /\ wpc \in ExtractSteps => ~metadata[WP].phase1_complete
        /\ wpc \in ClassifySteps => ~metadata[WP].ai_filtering_complete
        /\ wpc \in EnrichSteps => ~metadata[WP].phase2_complete
        /\ metadata[WP].phase1_complete =>
              /\ browserAt' = browserAt \/ wpc' \in {"killed", "start"}
              /\ \A q \in tenders' : \E r \in tenders :
                    r.id = q.id /\ SameSourceFields(r, q)
        /\ metadata[WP].ai_filtering_complete =>
              /\ cache' = cache \/ wpc' \in {"killed", "start"}
              /\ \A q \in tenders' : \E r \in tenders :
                    r.id = q.id /\ r.ai = q.ai
        /\ metadata[WP].phase2_complete =>
              /\ failedUrls' = failedUrls
              /\ \A q \in tenders' : \E r \in tenders :
                    r.id = q.id /\ r.p2 = q.p2 /\ r.desc = q.desc
        /\ (wpc = "start" /\ metadata[WP].phase1_complete) =>
              wpc' \in {"classify_gate", "killed"}
        /\ (wpc = "start" /\ ~metadata[WP].phase1_complete) =>
              /\ wpc' \in {"extract", "finish", "killed"}
              /\ wpc' = "finish" => runStatus' = "error"
        /\ (wpc = "classify_gate" /\ metadata[WP].ai_filtering_complete) =>
              wpc' \in {"enrich_gate", "killed"}
        /\ (/\ wpc = "classify_gate"
            /\ aiConfigured
            /\ ~metadata[WP].ai_filtering_complete
            /\ TendersForAiFiltering(tenders, WP) # {}) =>
              wpc' \in {"classify_batch", "killed"}
        /\ (wpc = "enrich_gate" /\ metadata[WP].phase2_complete) =>
              wpc' \in {"finish", "killed"}
        /\ (/\ wpc = "enrich_gate"
            /\ ~metadata[WP].phase2_complete
            /\ TendersForPhase2(tenders, WP) # {}) =>
              wpc' \in {"enrich_fetch", "killed"} ]_vars

\* A second run of the worker found phase 1 and AI filtering complete and
\* phase 2 not: it is fetching a detail page without having extracted or
\* classified anything.
CompletedPhasesSkippedWitness ==
    /\ runs = 2
    /\ wpc = "enrich_fetch"
    /\ metadata[WP].phase1_complete
    /\ metadata[WP].ai_filtering_complete
    /\ ~metadata[WP].phase2_complete
    /\ page_num = 0
    /\ cache = <<>>

\* C19: within one run of the worker the phases follow one another in the
\* order Extract, Classify, Enrich: the run never steps back to an earlier
\* phase, rows are inserted or re-extracted only by Extract, ai_filtered is
\* written only by Classify and the work description and phase 2 status only
\* by Enrich. Within Extract every page change is from page_num to
\* page_num + 1, together with the browser moving one page forward, and each
\* page extracted after the first follows such a change.
PhaseRank(pc) ==
    IF pc = "start" THEN 0
    ELSE IF pc \in ExtractSteps THEN 1
    ELSE IF pc \in ClassifySteps \cup {"classify_gate"} THEN 2
    ELSE IF pc \in EnrichSteps \cup {"enrich_gate"} THEN 3
    ELSE 4

PhasesInOrder ==
    [][ /\ (wpc \in Running /\ wpc' \in Running) =>
              PhaseRank(wpc') >= PhaseRank(wpc)
        /\ (\E q \in tenders' : \A r \in tenders :
                 ~(r.id = q.id /\ SameSourceFields(r, q))) =>
              wpc = "extract"
        /\ (\E q \in tenders' : \E r \in tenders :
                 r.id = q.id /\ r.ai # q.ai) =>
              wpc = "classify_mark"
        /\ (\E q \in tenders' : \E r \in tenders :
                 r.id = q.id /\ (r.p2 # q.p2 \/ r.desc # q.desc)) =>
              wpc \in EnrichSteps
        /\ (wpc \in ExtractSteps /\ wpc' \in ExtractSteps) =>
              /\ page_num' \in {page_num, page_num + 1}
              /\ page_num' = page_num + 1 <=> browserAt' = browserAt + 1
              /\ browserAt' \in {browserAt, browserAt + 1}
              /\ wpc' = "extract" => page_num' = page_num + 1 ]_vars

\* One run has extracted two pages, classified their rows and is fetching a
\* detail page.
PhasesInOrderWitness ==
    /\ runs = 1
    /\ aiConfigured
    /\ page_num = 2
    /\ browserAt = 2
    /\ cache # <<>>
    /\ wpc = "enrich_fetch"
    /\ \E r \in PortalRows(tenders, WP) : r.ai = 1

\* C22: a run of the worker whose run() returns, after its phases succeeded
\* or after they raised, appends one row to portal_execution_log, with the
\* run's status, when its phases have ended; nothing else appends a row, and
\* the rows already in the log are never changed or removed.
ExecutionLogOncePerRun ==
    [][ /\ Len(execlog) <= runs
        /\ (wpc = "finish" /\ wpc' = "exited" /\ faults' = faults) =>
              /\ Len(execlog') = Len(execlog) + 1
              /\ execlog'[Len(execlog')].portal = WP
              /\ execlog'[Len(execlog')].status = runStatus
              /\ runStatus \in {"success", "error"}
        /\ execlog' # execlog =>
              /\ wpc = "finish"
              /\ wpc' = "exited"
              /\ Len(execlog') = Len(execlog) + 1
        /\ \A i \in 1..Len(execlog) :
              i <= Len(execlog') /\ execlog'[i] = execlog[i] ]_vars

\* Two runs have ended, the first one after its phases raised and the second
\* one after they succeeded: the log has one row for each.
ExecutionLogOncePerRunWitness ==
    /\ wpc = "exited"
    /\ runs = 2
    /\ Len(execlog) = 2
    /\ execlog[1].status = "error"
    /\ execlog[2].status = "success"

\* C23: an inspection of the next control that raises a stale or detached
\* element error, in whichever DOM call, is tried again while fewer than
\* max_stale_retries attempts were made; pagination ends on such an error
\* only at the last attempt.
StaleInspectionRetried ==
    [][ (wpc = "checknext"
           /\ inspectErr' \in {"stale_in_check", "stale_in_link"}) =>
          IF attempt < max_stale_retries
          THEN wpc' = "checknext" /\ attempt' = attempt + 1
          ELSE wpc' = "p1_end" ]_vars

\* C24: an inspection of the next control that raises another error than a
\* stale or detached element is not tried again and reaches run() as an
\* error of the run; phase 1 does not end as if the data had ended.
OtherInspectionErrorPropagates ==
    [][ (wpc = "checknext"
           /\ inspectErr' \in {"other_in_check", "other_in_link"}) =>
          /\ attempt' = attempt
          /\ wpc' = "finish"
          /\ runStatus' = "error" ]_vars

\* C25: the navigation to the next page is attempted at most nav_attempts
\* times; no attempt, whatever page.goto and page.reload do, makes
\* run_phase1 raise; when the last attempt has failed phase 1 ends at the
\* page it was on, with the rows stored so far and the checkpoint not beyond
\* that page.
NavigationFailureEndsExtract ==
    [][ wpc = "navigate" =>
          /\ navAttempt <= nav_attempts
          /\ wpc' \in {"navigate", "extract", "p1_end", "killed"}
          /\ wpc' = "p1_end" =>
                /\ navAttempt = nav_attempts
                /\ page_num' = page_num
                /\ pages_scraped' = page_num
                /\ tenders' = tenders
                /\ metadata'[WP].last_page_extracted <= page_num ]_vars

\* C26: a failed navigation, the first one to the listing included, never
\* makes the run fail: from the start of the run and from the navigation
\* loop the worker goes on to extract, to the end of phase 1 or to the gate
\* of AI filtering.
NavigationFailureNotFatal ==
    [][ (wpc \in {"start", "navigate"}) =>
          /\ wpc' \in {"extract", "navigate", "p1_end", "classify_gate",
                       "killed"}
          /\ ~(runStatus' = "error") ]_vars

\* C27: a store error of upsert_tenders_batch in run_phase1 does not end the
\* run: the worker stays at the page to store its batch again, or goes on.
FailedBatchRetried ==
    [][ wpc = "extract" =>
          /\ wpc' \in {"extract", "checkpoint", "checknext", "killed"}
          /\ ~(runStatus' = "error")
          /\ wpc' = "extract" =>
                (page_num' = page_num /\ browserAt' = browserAt) ]_vars

\* C28: whenever phase2_complete is set for the portal, none of its rows has
\* a details URL together with phase2_status 'pending' or 'failed'.
AwaitingEnrichment(rows, p) ==
    { r \in PortalRows(rows, p) :
        r.url # "" /\ r.p2 \in {"pending", "failed"} }

CompleteMeansNoneEligible ==
    metadata[WP].phase2_complete => AwaitingEnrichment(tenders, WP) = {}

FailedHasLedgerRow ==
    (wpc \in {"enrich_end", "finish", "exited", "killed"}) =>
        \A r \in PortalRows(tenders, WP) :
            r.p2 = "failed" =>
                \E i \in 1..Len(failedUrls) :
                    /\ failedUrls[i].portal = WP
                    /\ failedUrls[i].tender_id = r.id
                    /\ failedUrls[i].url = r.url

\* The identity hashes of the tenders extract_tenders_from_page reads off
\* listing page i.
PageHashes(i) ==
    { ExtractTenders(listing[i].rows)[j].hash :
        j \in 1..Len(ExtractTenders(listing[i].rows)) }

\* C32: during Extract the table of tenders changes only by the whole batch
\* of the page the browser shows; last_page_extracted is written only after
\* that batch is committed, with the number the page was processed as; and
\* a kill changes neither the tenders nor the checkpoint.
CheckpointNeverAhead ==
    [][ /\ (wpc \in ExtractSteps /\ tenders' # tenders) =>
              /\ wpc = "extract"
              /\ PageHashes(browserAt) \subseteq HashesOf(tenders', WP)
        /\ (metadata'[WP].last_page_extracted #
                metadata[WP].last_page_extracted) =>
              /\ wpc = "checkpoint"
              /\ metadata'[WP].last_page_extracted = page_num
              /\ PageHashes(browserAt) # {}
              /\ PageHashes(browserAt) \subseteq HashesOf(tenders, WP)
        /\ (wpc' = "killed") =>
              /\ tenders' = tenders
              /\ metadata' = metadata ]_vars

\* A worker killed in its first run after it had committed the batch of a
\* page and written its checkpoint.
CheckpointNeverAheadWitness ==
    /\ wpc = "killed"
    /\ runs = 1
    /\ ~metadata[WP].phase1_complete
    /\ metadata[WP].last_page_extracted = 1
    /\ PortalRows(tenders, WP) # {}

\* C33 as stated: the step of Extract that commits the batch of the page
\* processed as n also advances last_page_extracted to n, so that the
\* checkpoint names the page whenever its tenders are in the store.
BatchAndCheckpointOneStep ==
    [][ (wpc = "extract" /\ tenders' # tenders) =>
            metadata'[WP].last_page_extracted = page_num ]_vars

\* C34: a worker becomes alive only in the launch loop, as the worker of the
\* next portal in configuration order, which had no worker before; one
\* sleep separates it from the next launch and none follows the last; and
\* the monitoring loop runs only when every portal has had its worker
\* launched.
StaggeredLaunchInOrder ==
    [][ /\ \A w \in OrchPortals :
              (pstate[w] # "alive" /\ pstate'[w] = "alive") =>
                  /\ opc = "launch"
                  /\ w = PortalOrder[li]
                  /\ \A k \in 1..Len(PortalOrder) :
                        (pstate[PortalOrder[k]] = "unstarted") <=> (k >= li)
                  /\ opc' = IF li < Len(PortalOrder) THEN "stagger"
                            ELSE "while"
        /\ (opc = "stagger" /\ opc' # "stagger") =>
              /\ opc' = "launch"
              /\ li' = li + 1
              /\ pstate' = pstate
        /\ (opc' \in {"while", "for", "sleep", "summary"}) =>
              \A w \in OrchPortals : pstate'[w] # "unstarted" ]_vars

\* The monitoring loop has started and all four workers are alive.
StaggeredLaunchInOrderWitness ==
    /\ opc = "for"
    /\ \A w \in OrchPortals : pstate[w] = "alive"

AllWorkersExited == \A w \in OrchPortals : pstate[w] = "dead"

\* C35: the monitoring loop is left for the summary only when no worker is
\* alive, so the summary and the return of run_all_portals come after every
\* worker has exited; and once every worker has exited the orchestrator
\* reaches the summary and returns.
MonitorsUntilAllExit ==
    /\ [](opc \in {"summary", "main", "exited"} => AllWorkersExited)
    /\ [][ (opc = "while" /\ opc' # "while" /\ ~AllWorkersExited) =>
              opc' = "for" ]_vars
    /\ (AllWorkersExited ~> opc \in {"main", "exited"})

\* run_all_portals has returned after it polled workers that were alive.
MonitorsUntilAllExitWitness ==
    /\ opc = "main"
    /\ AllWorkersExited
    /\ Len(completed) + Len(failed) >= 1

\* C38: through every step of every run, kill and restart of a worker, a
\* phase flag that is set stays set, last_page_extracted does not decrease,
\* and a tender marked kept or rejected does not become unclassified.
CheckpointsOnlyForward ==
    [][ /\ metadata[WP].phase1_complete => metadata'[WP].phase1_complete
        /\ metadata[WP].ai_filtering_complete =>
              metadata'[WP].ai_filtering_complete
        /\ metadata[WP].phase2_complete => metadata'[WP].phase2_complete
        /\ metadata'[WP].last_page_extracted >=
              metadata[WP].last_page_extracted
        /\ \A r \in PortalRows(tenders, WP) :
              r.ai # 0 => \E q \in PortalRows(tenders', WP) :
                              q.id = r.id /\ q.ai # 0 ]_vars

\* A second run has passed the gate of phase 1 on a store whose checkpoint
\* names page 2, whose phase 1 is complete and in which a tender has been
\* classified.
CheckpointsOnlyForwardWitness ==
    /\ runs = 2
    /\ wpc \in {"classify_gate", "enrich_gate"}
    /\ metadata[WP].phase1_complete
    /\ metadata[WP].last_page_extracted = 2
    /\ \E r \in PortalRows(tenders, WP) : r.ai # 0

\* C39: when the loop of run_ai_filtering has ended, every tender of the pass
\* is marked rejected if check_titles answered True for its title (the
\* fallback included) and kept if it answered False; a rejected tender is
\* not selected for phase 2 and is not in the list a phase 2 pass works on.
ClassifyPolarity ==
    /\ wpc = "classify_end" =>
          \A i \in 1..Len(todo) :
              \A r \in Matches(tenders, WP, todo[i].hash) :
                  /\ (r.ai = 1) <=> (cache[todo[i].title] = FALSE)
                  /\ (r.ai = -1) <=> (cache[todo[i].title] = TRUE)
    /\ \A r \in PortalRows(tenders, WP) :
          r.ai = -1 => r \notin TendersForPhase2(tenders, WP)
    /\ wpc \in EnrichSteps =>
          \A i \in 1..Len(todo) :
              \A r \in Matches(tenders, WP, todo[i].hash) : r.ai # -1

\* A pass has ended in which the service failed for the title "t2", which it
\* would have answered False for: the tender of that title is rejected.
ClassifyPolarityWitness ==
    /\ wpc = "classify_end"
    /\ "t2" \in DOMAIN cache
    /\ cache["t2"] = TRUE
    /\ ~Meaningful("t2")
    /\ \E i \in 1..Len(todo) :
          /\ todo[i].title = "t2"
          /\ \A r \in Matches(tenders, WP, todo[i].hash) : r.ai = -1

\* C40: on a finite listing run_phase1, once started, comes to its end; the
\* browser never leaves the listing's pages; and unless the process is
\* killed, run_phase1 ends either by setting phase1_complete and returning
\* or with an exception that leaves phase1_complete unset.
ExtractTerminates ==
    /\ (wpc \in ExtractSteps) ~> (wpc \notin ExtractSteps)
    /\ [](wpc \in ExtractSteps => browserAt \in 1..Len(listing))
    /\ [][ (wpc \in ExtractSteps /\ wpc' \notin ExtractSteps
                                 /\ wpc' # "killed") =>
              \/ /\ wpc' = "classify_gate"
                 /\ ~metadata[WP].phase1_complete
                 /\ metadata'[WP].phase1_complete
                 /\ runStatus' # "error"
              \/ /\ wpc' = "finish"
                 /\ runStatus' = "error"
                 /\ ~metadata'[WP].phase1_complete ]_vars

\* run_phase1 has returned after it walked a listing of two pages while
\* inspections or navigations failed on the way.
ExtractTerminatesWitness ==
    /\ wpc = "classify_gate"
    /\ Len(listing) = 2
    /\ browserAt = 2
    /\ disturbed
    /\ metadata[WP].phase1_complete

(***************************************************************************)
(* Properties of run_phase2 on a backlog (SpecEnrich)                      *)
(***************************************************************************)
\* The text the two extraction methods yield for a detail page, the
\* selector's before the table scan's; "" when neither yields any.
YieldedText(url) ==
    IF CleanText(DetailPage(url).primary) # ""
    THEN CleanText(DetailPage(url).primary)
    ELSE CleanText(DetailPage(url).scan)

\* C31 as stated: a tender whose detail page yields a text by the selector
\* or by the table scan is written with that text and phase2_status
\* 'success'; a tender is 'failed' only with the session-expired, the
\* not-found or a fetch-error text, and not-found only when neither method
\* yields a text.
EnrichOutcomeFollowsStrategies ==
    \A r \in PortalRows(tenders, WP) :
        /\ r.p2 = "success" => r.desc # "" /\ r.desc = YieldedText(r.url)
        /\ r.p2 = "failed" =>
              \/ r.desc = "ERROR: Session expired"
              \/ StartsWith(r.desc, "FETCH_ERROR: ")
              \/ /\ r.desc = "WORK_DESCRIPTION_NOT_FOUND"
                 /\ YieldedText(r.url) = ""

\* C36: when the loop of run_phase2 moves on to a tender of the pass, it
\* attempts the session refresh first exactly if the tender is the 11th,
\* 21st, 31st, ... of the pass; and the refresh, passed or failed, changes no
\* table and hands the same tender on to the fetch.
RefreshBeforeEveryEleventh ==
    [][ /\ (ti' # ti /\ ti' \in 1..Len(todo')) =>
              ((wpc' = "enrich_refresh") <=> (ti' > 1 /\ ti' % 10 = 1))
        /\ (wpc' = "enrich_refresh" /\ wpc # "enrich_refresh") =>
              (ti' = ti + 1 /\ ti' \in 1..Len(todo'))
        /\ (wpc = "enrich_refresh" /\ wpc' # "enrich_refresh") =>
              /\ wpc' = "enrich_fetch"
              /\ ti' = ti
              /\ todo' = todo
              /\ UNCHANGED storeVars ]_vars

\* The 11th tender of a pass has been processed after a refresh that failed:
\* the one fault of the run hit neither a fetch nor a store call.
RefreshBeforeEveryEleventhWitness ==
    /\ wpc = "enrich_fetch"
    /\ ti = 12
    /\ runs = 1
    /\ faults = 1
    /\ \A r \in PortalRows(tenders, WP) :
          r.id <= 11 => /\ r.p2 # "pending"
                        /\ r.desc = FetchWorkDescription(r.url)
    /\ Len(failedUrls) =
          Cardinality({ r \in PortalRows(tenders, WP) : r.p2 = "failed" })

\* C37 as stated: a tender whose phase2_status is 'success' keeps that
\* status and its work description through every later step, of this run
\* and of later runs.
SuccessIsFinal ==
    [][ \A r \in PortalRows(tenders, WP) :
            r.p2 = "success" =>
                \E q \in PortalRows(tenders', WP) :
                    /\ q.id = r.id
                    /\ q.p2 = "success"
                    /\ q.desc = r.desc ]_vars

(***************************************************************************)
(* Properties of the classifier (SpecChecker)                              *)
(***************************************************************************)
\* C14: when the client raises during a call of check_titles, every title of
\* the batch, the titles decided by earlier calls included, comes back with
\* the fallback decision True.
FallbackForWholeBatch ==
    ctThrew => \A t \in ctTitles : ctResult[t] = TRUE

(***************************************************************************)
(* Properties of create_identity_hash (SpecHash)                           *)
(***************************************************************************)
\* C21: two dicts with the same title, published date and organisation chain
\* get the same hash whatever their other fields are, and two dicts that
\* differ in exactly one of the three fields get different hashed keys.
SameTriple(a, b) == a.title = b.title /\ a.pub = b.pub /\ a.org = b.org

DifferInOne(a, b) ==
    \/ a.title # b.title /\ a.pub = b.pub /\ a.org = b.org
    \/ a.title = b.title /\ a.pub # b.pub /\ a.org = b.org
    \/ a.title = b.title /\ a.pub = b.pub /\ a.org # b.org

IdentityDeterminism ==
    (hashOut # <<>> /\ hashOut[1] # NoHash /\ hashOut[2] # NoHash) =>
        /\ SameTriple(hashIn[1], hashIn[2]) => hashOut[1] = hashOut[2]
        /\ DifferInOne(hashIn[1], hashIn[2]) => hashOut[1] # hashOut[2]

\* Both dicts were hashed: same title, date and organisation chain, another
\* S.No. and another details URL.
IdentityDeterminismWitness ==
    /\ hashOut # <<>>
    /\ hashOut[1] # NoHash
    /\ hashOut[2] # NoHash
    /\ SameTriple(hashIn[1], hashIn[2])
    /\ hashIn[1].src # hashIn[2].src
    /\ hashIn[1].url # hashIn[2].url
    /\ hashOut[1] = hashOut[2]

====
